---- MODULE Spec2Model ----
(***************************************************************************)
(* A model of the blog platform's stateful pieces:                         *)
(*   - ArticleViewTracker (client component, one delayed POST per load)    *)
(*   - ArticlesClient     (client-side filter / sort / Load More)          *)
(*   - lib/env.ts         (environment validation at module load)          *)
(*   - the API route handlers and the module-level uploadedFiles list      *)
(*   - the SEO analyzer   (analyzeSEO and its helpers)                      *)
(*   - the home page and the sitemap (getFeaturedArticles, sitemap)        *)
(*   - query validation   (validateQuery with searchSchema)                *)
(*   - SEOImageUpload     (client component, alt text and upload request)  *)
(* Each piece has its own specification over the shared variable list; the *)
(* variables of the other pieces stay at their initial values.             *)
(***************************************************************************)
EXTENDS Integers, Sequences, FiniteSets, TLC

VARIABLES
    \* ---- ArticleViewTracker (src/src/components/article-view-tracker.tsx)
    phase,          \* "init" | "mounted" | "unmounted": life of one instance
    slugProp,       \* the slug prop of the current render
    hasTracked,     \* hasTracked.current (useRef)
    timers,         \* pending setTimeout callbacks: [id, slug, due]
    nextTimerId,    \* ids handed out by setTimeout
    cleanup,        \* timer id the last effect run's cleanup clears, 0: none
    posts,          \* POST /api/article-view requests sent: [slug, at]
    now,            \* the clock, in ms
    nonEmptySince,  \* history: since when mounted with a non-empty slug, -1: not
    effectRuns,     \* history: how often the effect body was entered
    \* ---- ArticlesClient (src/src/components/articles/articles-client.tsx)
    initialArticles,   \* the initialArticles prop
    searchQuery,       \* useState('')
    selectedCategory,  \* useState('all')
    sortBy,            \* useState('newest')
    viewMode,          \* useState('grid')
    displayCount,      \* useState(9)
    filteredArticles,  \* the useMemo value of the current render
    loadMoreClicks,    \* history: clicks on Load More
    \* ---- lib/env.ts (src/src/lib/env.ts)
    processEnv,        \* process.env: a function from the names set to strings
    envStatus,         \* "unloaded" | "exported" | "threw": the module's load
    env,               \* the exported env (a function like processEnv)
    envError,          \* the message of the error the load threw, "" if none
    \* ---- API route handlers (src/src/app/api/..., src/unnamed/part_002)
    uploadedFiles,     \* the module-level list of /api/admin/media
    articleTable,      \* the article table: slug -> [status, viewCount]
    dbUp,              \* whether database operations succeed
    safeDbRethrows,    \* whether safeDbOperation rethrows a failure (fixed)
    imagekit,          \* whether the ImageKit client is configured (fixed)
    dateNow,           \* Date.now()
    lastRequest,       \* the request handled last, <<>> before the first
    lastResponse,      \* how its handler ended, and how long the list was before
    library,           \* history: the records POST /api/admin/media accepted and
                       \* no DELETE named since
    \* ---- SEO analysis (src/unnamed/part_003)
    seoInput,          \* the arguments of the call
    seoOutcome,        \* <<>> before the call, then what analyzeSEO did
    \* ---- home page and sitemap (article-view-tracker.tsx, part_001)
    cms,               \* the article, category and page tables
    siteOutcome,       \* <<>>, then what the last server function did
    \* ---- query validation (src/unnamed/part_004)
    searchParams,      \* the URLSearchParams of the request
    queryOutcome,      \* <<>> before the call, then what validateQuery did
    \* ---- SEOImageUpload (src/src/components/admin/seo-image-upload.tsx)
    uploadForm,        \* the props and useState values of the current render
    uploadsSent        \* history: the form data of each fetch('/api/upload')

trackerVars == <<phase, slugProp, hasTracked, timers, nextTimerId, cleanup,
                 posts, now, nonEmptySince, effectRuns>>

articlesVars == <<initialArticles, searchQuery, selectedCategory, sortBy,
                  viewMode, displayCount, filteredArticles, loadMoreClicks>>

envVars == <<processEnv, envStatus, env, envError>>

apiVars == <<uploadedFiles, articleTable, dbUp, safeDbRethrows, imagekit, dateNow,
             lastRequest, lastResponse, library>>

seoVars == <<seoInput, seoOutcome>>

siteVars == <<cms, siteOutcome>>

queryVars == <<searchParams, queryOutcome>>

formVars == <<uploadForm, uploadsSent>>

vars == <<trackerVars, articlesVars, envVars, apiVars, seoVars, siteVars, queryVars,
          formVars>>

\* What the actions of one piece leave alone: the other pieces.
notTracker ==
    <<articlesVars, envVars, apiVars, seoVars, siteVars, queryVars, formVars>>
notArticles ==
    <<trackerVars, envVars, apiVars, seoVars, siteVars, queryVars, formVars>>
notEnv ==
    <<trackerVars, articlesVars, apiVars, seoVars, siteVars, queryVars, formVars>>
notApi ==
    <<trackerVars, articlesVars, envVars, seoVars, siteVars, queryVars, formVars>>
notSEO ==
    <<trackerVars, articlesVars, envVars, apiVars, siteVars, queryVars, formVars>>
notSite ==
    <<trackerVars, articlesVars, envVars, apiVars, seoVars, queryVars, formVars>>
notForm ==
    <<trackerVars, articlesVars, envVars, apiVars, seoVars, siteVars, queryVars>>
notQuery ==
    <<trackerVars, articlesVars, envVars, apiVars, seoVars, siteVars, formVars>>

(***************************************************************************)
(* Strings are sequences of one-character strings.                         *)
(***************************************************************************)

UpperChars == <<"A", "B", "C", "D", "E", "F", "G", "H", "I", "J", "K", "L", "M",
                "N", "O", "P", "Q", "R", "S", "T", "U", "V", "W", "X", "Y", "Z">>
LowerChars == <<"a", "b", "c", "d", "e", "f", "g", "h", "i", "j", "k", "l", "m",
                "n", "o", "p", "q", "r", "s", "t", "u", "v", "w", "x", "y", "z">>
UpperSet == {UpperChars[i] : i \in DOMAIN UpperChars}
LowerSet == {LowerChars[i] : i \in DOMAIN LowerChars}
LowerOf == [c \in UpperSet |->
              LowerChars[CHOOSE i \in DOMAIN UpperChars : UpperChars[i] = c]]
Digits == {"0", "1", "2", "3", "4", "5", "6", "7", "8", "9"}
\* JavaScript's white space (\s), as far as the model's alphabet has it.
WhiteSpace == {" ", "\n", "\t"}

toLowerChar(c) == IF c \in UpperSet THEN LowerOf[c] ELSE c
\* String.prototype.toLowerCase
toLowerCase(s) == [i \in DOMAIN s |-> toLowerChar(s[i])]
\* Whether sub occurs in s at position i.
OccursAt(s, sub, i) ==
    /\ i >= 1
    /\ i + Len(sub) - 1 <= Len(s)
    /\ \A k \in 1..Len(sub) : s[i + k - 1] = sub[k]
\* String.prototype.includes
includes(s, sub) == \E i \in 1..(Len(s) + 1) : OccursAt(s, sub, i)
\* String.prototype.trim
trim(s) ==
    LET keep == {i \in DOMAIN s : s[i] \notin WhiteSpace}
    IN  IF keep = {} THEN <<>>
        ELSE SubSeq(s, CHOOSE i \in keep : \A j \in keep : i <= j,
                       CHOOSE i \in keep : \A j \in keep : i >= j)
Min(a, b) == IF a <= b THEN a ELSE b

RECURSIVE Text(_)
\* The characters of s as one string.
Text(s) ==
    IF Len(s) = 0 THEN ""
    ELSE IF Len(s) = 1 THEN s[1]
    ELSE Text(SubSeq(s, 1, Len(s) \div 2))
            \o Text(SubSeq(s, Len(s) \div 2 + 1, Len(s)))

(***************************************************************************)
(* ArticleViewTracker                                                      *)
(***************************************************************************)

\* Number of 1000 ms clock steps a run may take.
MaxTicks == 4
\* Number of effect re-runs (slug changes, effect remounts) in one run.
MaxEffectRuns == 3
\* setTimeout(..., 2000)
TrackDelay == 2000

TrackerSlugs == {"", "a", "b"}

TrackerInit ==
    /\ phase = "init"
    /\ slugProp = ""
    /\ hasTracked = FALSE
    /\ timers = {}
    /\ nextTimerId = 1
    /\ cleanup = 0
    /\ posts = <<>>
    /\ now = 0
    /\ nonEmptySince = -1
    /\ effectRuns = 0

\* An effect that forgets the ref: if (!slug) return;
EffectSkipsNoRef(tracked, s) == s = ""

\* The effect's early return: if (hasTracked.current || !slug) return;
EffectSkips(tracked, s) == tracked \/ s = ""

\* The cleanup function of the previous effect run: clearTimeout(timer).
\* clearTimeout of a timer that already fired (or of nothing) does nothing.
RunCleanup(ts) == {t \in ts : t.id # cleanup}

\* One run of the effect body with slug s, on the timers left by the cleanup.
RunEffect(s, ts) ==
    /\ effectRuns' = effectRuns + 1
    /\ IF EffectSkips(hasTracked, s)
       THEN /\ timers' = ts
            /\ cleanup' = 0
            /\ UNCHANGED <<hasTracked, nextTimerId>>
       ELSE /\ hasTracked' = TRUE
            /\ timers' = ts \cup {[id |-> nextTimerId, slug |-> s,
                                   due |-> now + TrackDelay]}
            /\ cleanup' = nextTimerId
            /\ nextTimerId' = nextTimerId + 1

\* History of the claim's premise: mounted with a non-empty slug since when.
SinceAfter(s) ==
    IF s = "" THEN -1 ELSE IF nonEmptySince = -1 THEN now ELSE nonEmptySince

\* The component mounts with slug s; React runs the effect.
Mount(s) ==
    /\ UNCHANGED notTracker
    /\ phase = "init"
    /\ phase' = "mounted"
    /\ slugProp' = s
    /\ nonEmptySince' = SinceAfter(s)
    /\ RunEffect(s, timers)
    /\ UNCHANGED <<posts, now>>

\* The parent re-renders with another slug: the dependency [slug] changed, so
\* React runs the previous cleanup and then the effect again.
SlugChange(s) ==
    /\ UNCHANGED notTracker
    /\ phase = "mounted"
    /\ s # slugProp
    /\ effectRuns < MaxEffectRuns
    /\ slugProp' = s
    /\ nonEmptySince' = SinceAfter(s)
    /\ RunEffect(s, RunCleanup(timers))
    /\ UNCHANGED <<phase, posts, now>>

\* React re-mounts the effect (Strict Mode, Fast Refresh): cleanup, then the
\* effect again with the same props and the same ref object.
EffectRemount ==
    /\ UNCHANGED notTracker
    /\ phase = "mounted"
    /\ effectRuns < MaxEffectRuns
    /\ RunEffect(slugProp, RunCleanup(timers))
    /\ UNCHANGED <<phase, slugProp, posts, now, nonEmptySince>>

\* A due timer fires: the callback sends the POST with the slug it closed over.
TimerFire ==
    /\ UNCHANGED notTracker
    /\ \E t \in timers :
        /\ t.due <= now
        /\ timers' = timers \ {t}
        /\ posts' = Append(posts, [slug |-> t.slug, at |-> now])
    /\ UNCHANGED <<phase, slugProp, hasTracked, nextTimerId, cleanup, now,
                   nonEmptySince, effectRuns>>

\* Time passes; a timer that is due fires before the clock moves on.
Tick ==
    /\ UNCHANGED notTracker
    /\ phase = "mounted"
    /\ now < MaxTicks * 1000
    /\ \A t \in timers : t.due > now
    /\ now' = now + 1000
    /\ UNCHANGED <<phase, slugProp, hasTracked, timers, nextTimerId, cleanup,
                   posts, nonEmptySince, effectRuns>>

\* The component unmounts: React runs the last cleanup.
Unmount ==
    /\ UNCHANGED notTracker
    /\ phase = "mounted"
    /\ phase' = "unmounted"
    /\ timers' = RunCleanup(timers)
    /\ cleanup' = 0
    /\ nonEmptySince' = -1
    /\ UNCHANGED <<slugProp, hasTracked, nextTimerId, posts, now, effectRuns>>

TrackerNext ==
    \/ \E s \in TrackerSlugs : Mount(s)
    \/ \E s \in TrackerSlugs : SlugChange(s)
    \/ EffectRemount
    \/ TimerFire
    \/ Tick
    \/ Unmount


\* C9: one tracker instance sends at most one POST /api/article-view, over
\* any sequence of effect runs, cleanups, slug changes and unmount.
AtMostOnePost == Len(posts) <= 1

\* The POST was sent and the effect ran again afterwards with another slug.
AtMostOnePostWitness ==
    /\ Len(posts) = 1
    /\ effectRuns >= 2
    /\ phase = "mounted"
    /\ slugProp # ""
    /\ slugProp # posts[1].slug

\* C10: once the tracker has stayed mounted with a non-empty slug for longer
\* than the 2 second delay, a POST has been sent (timers fire when due), also
\* when the effect was cleaned up and re-run meanwhile; and no POST is sent
\* before 2 seconds have passed since the mount.
PostAfterDelay ==
    /\ (phase = "mounted" /\ nonEmptySince # -1
            /\ now - nonEmptySince > TrackDelay) => Len(posts) >= 1
    /\ \A i \in DOMAIN posts : posts[i].at >= TrackDelay

(***************************************************************************)
(* ArticlesClient                                                          *)
(***************************************************************************)

\* Largest number of articles the page is given.
MaxArticles == 20

TitleChars == <<"a", "B", "c", "A", "b">>
CategorySlugs == <<"players", "guides", "news">>

\* The i-th article of the page's data. publishedAt is the calendar day the
\* date string names, slug the article's unique key.
Article(i) ==
    [slug |-> i,
     title |-> <<TitleChars[(i % 5) + 1], TitleChars[((i \div 2) % 5) + 1]>>,
     excerpt |-> <<TitleChars[((i + 2) % 5) + 1], " ",
                   TitleChars[((i \div 3) % 5) + 1]>>,
     tags |-> IF i % 3 = 0 THEN <<>>
              ELSE << <<TitleChars[(i % 4) + 1], TitleChars[(i % 2) + 1]>> >>,
     categorySlug |-> CategorySlugs[(i % 3) + 1],
     publishedAt |-> (i * 7) % 11,
     viewCount |-> (i * 5) % 7]

SearchQueries == {<<>>, <<" ">>, <<"A", "b">>, <<" ", "a">>, <<"c", "c">>}
SelectableCategories == {"all"} \cup {CategorySlugs[i] : i \in DOMAIN CategorySlugs}
SortOptions == {"newest", "oldest", "popular", "title"}

\* new Date(publishedAt).getTime(), for a date string of day p
DateGetTime(p) == p * 86400000

\* Position of a character in the collation order: letters by their
\* alphabet position whatever their case, white space first.
CollationRank(c) ==
    LET l == toLowerChar(c)
    IN  IF l \in LowerSet
        THEN CHOOSE i \in DOMAIN LowerChars : LowerChars[i] = l
        ELSE 0
\* Lexicographic comparison of two sequences of numbers: negative, zero or
\* positive.
CompareKeys(a, b) ==
    LET m == Min(Len(a), Len(b))
        d == {i \in 1..m : a[i] # b[i]}
        f == CHOOSE i \in d : \A j \in d : i <= j
    IN  IF d = {} THEN Len(a) - Len(b) ELSE a[f] - b[f]
CaseRank(c) == IF c \in UpperSet THEN 1 ELSE 0
\* String.prototype.localeCompare: letters first, then lower before upper case.
localeCompare(a, b) ==
    LET primary == CompareKeys([i \in DOMAIN a |-> CollationRank(a[i])],
                               [i \in DOMAIN b |-> CollationRank(b[i])])
    IN  IF primary # 0 THEN primary
        ELSE CompareKeys([i \in DOMAIN a |-> CaseRank(a[i])],
                         [i \in DOMAIN b |-> CaseRank(b[i])])

\* The comparator each case of the switch on sortBy passes to sort.
Comparator(by, a, b) ==
    CASE by = "newest" -> DateGetTime(b.publishedAt) - DateGetTime(a.publishedAt)
      [] by = "oldest" -> DateGetTime(a.publishedAt) - DateGetTime(b.publishedAt)
      [] by = "popular" -> b.viewCount - a.viewCount
      [] by = "title" -> localeCompare(a.title, b.title)

\* Array.prototype.sort with the comparator of by: a stable sort.
sortArray(seq, by) ==
    LET n == Len(seq)
        pos == [i \in 1..n |-> 1 + Cardinality({j \in 1..n :
                        \/ Comparator(by, seq[j], seq[i]) < 0
                        \/ Comparator(by, seq[j], seq[i]) = 0 /\ j < i})]
    IN  [k \in 1..n |-> seq[CHOOSE i \in 1..n : pos[i] = k]]

\* The search filter as the README prints it: title and excerpt only.
SearchMatchesNoTags(article, query) ==
    \/ includes(toLowerCase(article.title), query)
    \/ includes(toLowerCase(article.excerpt), query)

\* The predicate of the search filter, query already lower-cased.
SearchMatches(article, query) ==
    \/ includes(toLowerCase(article.title), query)
    \/ includes(toLowerCase(article.excerpt), query)
    \/ \E t \in DOMAIN article.tags :
           includes(toLowerCase(article.tags[t]), query)

\* The switch on sortBy.
SortArticles(filtered, by) ==
    IF by \in {"newest", "oldest", "popular", "title"}
    THEN sortArray(filtered, by)
    ELSE filtered

\* The useMemo callback.
ComputeFiltered(articles, q, category, by) ==
    LET query == toLowerCase(q)
        searched == IF trim(q) # <<>>
                    THEN SelectSeq(articles, LAMBDA a : SearchMatches(a, query))
                    ELSE articles
        inCategory == IF category # "all"
                      THEN SelectSeq(searched,
                                     LAMBDA a : a.categorySlug = category)
                      ELSE searched
    IN  SortArticles(inCategory, by)

\* filteredArticles.slice(0, displayCount)
displayedArticles == SubSeq(filteredArticles, 1, Min(displayCount, Len(filteredArticles)))
hasMore == displayCount < Len(filteredArticles)
\* The count the Load More button shows.
remaining == Len(filteredArticles) - displayCount

\* A Load More that adds a page of 10.
LoadMoreStepTen == 10
\* setDisplayCount(prev => prev + 9)
LoadMoreStep == 9

\* useState(9)
InitialDisplayCount == 9

\* The sizes of the article list: none, one, and around each page boundary.
ArticleCounts ==
    {n \in 0..MaxArticles :
        \/ n <= 1
        \/ n = MaxArticles
        \/ n % LoadMoreStep <= 1}

ArticlesInit ==
    /\ \E n \in ArticleCounts : initialArticles = [i \in 1..n |-> Article(i)]
    /\ searchQuery = <<>>
    /\ selectedCategory = "all"
    /\ sortBy = "newest"
    /\ viewMode = "grid"
    /\ displayCount = InitialDisplayCount
    /\ filteredArticles = ComputeFiltered(initialArticles, <<>>, "all", "newest")
    /\ loadMoreClicks = 0

\* onChange of the search input
SetSearchQuery(q) ==
    /\ UNCHANGED notArticles
    /\ q # searchQuery
    /\ searchQuery' = q
    /\ filteredArticles' = ComputeFiltered(initialArticles, q, selectedCategory, sortBy)
    /\ UNCHANGED <<initialArticles, selectedCategory, sortBy, viewMode,
                   displayCount, loadMoreClicks>>

\* A category select that goes back to the first page.
SetSelectedCategoryResets(c) ==
    /\ UNCHANGED notArticles
    /\ c # selectedCategory
    /\ selectedCategory' = c
    /\ filteredArticles' = ComputeFiltered(initialArticles, searchQuery, c, sortBy)
    /\ displayCount' = InitialDisplayCount
    /\ UNCHANGED <<initialArticles, searchQuery, sortBy, viewMode, loadMoreClicks>>

\* onValueChange of the category select
SetSelectedCategory(c) ==
    /\ UNCHANGED notArticles
    /\ c # selectedCategory
    /\ selectedCategory' = c
    /\ filteredArticles' = ComputeFiltered(initialArticles, searchQuery, c, sortBy)
    /\ UNCHANGED <<initialArticles, searchQuery, sortBy, viewMode,
                   displayCount, loadMoreClicks>>

\* onValueChange of the sort select
SetSortBy(by) ==
    /\ UNCHANGED notArticles
    /\ by # sortBy
    /\ sortBy' = by
    /\ filteredArticles' = ComputeFiltered(initialArticles, searchQuery,
                                           selectedCategory, by)
    /\ UNCHANGED <<initialArticles, searchQuery, selectedCategory, viewMode,
                   displayCount, loadMoreClicks>>

\* onClick of the Grid and List buttons
SetViewMode(v) ==
    /\ UNCHANGED notArticles
    /\ v # viewMode
    /\ viewMode' = v
    /\ UNCHANGED <<initialArticles, searchQuery, selectedCategory, sortBy,
                   displayCount, filteredArticles, loadMoreClicks>>

\* onClick of Load More, which is rendered only when hasMore.
LoadMore ==
    /\ UNCHANGED notArticles
    /\ hasMore
    /\ displayCount' = displayCount + LoadMoreStep
    /\ loadMoreClicks' = loadMoreClicks + 1
    /\ UNCHANGED <<initialArticles, searchQuery, selectedCategory, sortBy,
                   viewMode, filteredArticles>>

ArticlesNext ==
    \/ \E q \in SearchQueries : SetSearchQuery(q)
    \/ \E c \in SelectableCategories : SetSelectedCategory(c)
    \/ \E by \in SortOptions : SetSortBy(by)
    \/ \E v \in {"grid", "list"} : SetViewMode(v)
    \/ LoadMore

\* C6: 9 articles are shown initially and each Load More click adds 9; the
\* displayed articles are the first min(displayCount, filtered count) ones;
\* Load More is shown exactly when displayCount is below the filtered count,
\* and the remaining count it then shows is at least 1.
PaginationInvariant ==
    /\ loadMoreClicks = 0 => displayCount = 9
    /\ displayCount = 9 + 9 * loadMoreClicks
    /\ Len(displayedArticles) = Min(displayCount, Len(filteredArticles))
    /\ \A i \in DOMAIN displayedArticles : displayedArticles[i] = filteredArticles[i]
    /\ hasMore <=> displayCount < Len(filteredArticles)
    /\ hasMore => remaining >= 1

\* Load More was clicked and more articles remain to be loaded.
PaginationWitness ==
    /\ loadMoreClicks = 1
    /\ hasMore
    /\ Len(displayedArticles) = 18
    /\ remaining = 2

\* C7's matching rule: the query, case-insensitively, is a substring of the
\* title, the excerpt or a tag; a blank query matches every article.
QueryMatches(article, q) ==
    \/ \A i \in DOMAIN q : q[i] \in WhiteSpace
    \/ \E text \in {article.title, article.excerpt}
                   \cup {article.tags[t] : t \in DOMAIN article.tags} :
          \E i \in 1..Len(text) :
             /\ i + Len(q) - 1 <= Len(text)
             /\ \A k \in DOMAIN q : toLowerChar(text[i + k - 1]) = toLowerChar(q[k])
CategoryMatches(article, category) ==
    category = "all" \/ article.categorySlug = category
OrderedBy(seq, by) ==
    \A i, j \in DOMAIN seq :
        i < j => CASE by = "newest" -> seq[i].publishedAt >= seq[j].publishedAt
                   [] by = "oldest" -> seq[i].publishedAt <= seq[j].publishedAt
                   [] by = "popular" -> seq[i].viewCount >= seq[j].viewCount
                   [] by = "title" -> localeCompare(seq[i].title, seq[j].title) <= 0

DisplayCountFrame ==
    [][/\ (\/ searchQuery' # searchQuery
            \/ selectedCategory' # selectedCategory
            \/ sortBy' # sortBy
            \/ viewMode' # viewMode) => displayCount' = displayCount
       /\ displayCount' # displayCount =>
            /\ loadMoreClicks' = loadMoreClicks + 1
            /\ <<searchQuery, selectedCategory, sortBy, viewMode>>'
                    = <<searchQuery, selectedCategory, sortBy, viewMode>>
       /\ displayCount' >= displayCount
       /\ displayCount' = 9 * (1 + loadMoreClicks')]_vars

\* Load More is offered only while displayCount is below the filtered count,
\* so 18 shown slots over at most 9 filtered articles means that the filters
\* changed after the click; the view mode and the sort order changed too.
DisplayCountFrameWitness ==
    /\ loadMoreClicks = 1
    /\ displayCount = 18
    /\ Len(filteredArticles) <= 9
    /\ Len(filteredArticles) >= 1
    /\ selectedCategory # "all"
    /\ searchQuery # <<>>
    /\ sortBy = "popular"
    /\ viewMode = "list"

(***************************************************************************)
(* lib/env.ts                                                              *)
(***************************************************************************)

\* The values the model gives each variable; a variable may also be unset.
\* PATH stands for the variables of process.env the schema does not declare.
EnvChoices ==
    [DATABASE_URL |-> {"", "mysql://db"},
     NEXTAUTH_SECRET |-> {"short", "0123456789abcdef0123456789abcdef"},
     NEXTAUTH_URL |-> {"not a url", "https://site.io"},
     NEXT_PUBLIC_IMAGEKIT_PUBLIC_KEY |-> {"pk"},
     IMAGEKIT_PRIVATE_KEY |-> {},
     NEXT_PUBLIC_IMAGEKIT_URL_ENDPOINT |-> {"https://ik.io"},
     NODE_ENV |-> {"development", "production", "test", "staging"},
     NEXT_PUBLIC_SITE_URL |-> {"not a url", "https://site.io"},
     PATH |-> {"/bin"}]
EnvNames == DOMAIN EnvChoices
\* The keys of envSchema.
SchemaKeys == EnvNames \ {"PATH"}
\* The strings of the model that new URL() accepts (z.string().url()).
IsUrl(v) == v \in {"https://site.io", "https://ik.io", "mysql://db"}

\* A variable that is not set.
Unset == "(unset)"
\* What a variable may be: one of its values, or unset.
Options(n) == EnvChoices[n] \cup {Unset}
\* process.env with the variables given in choice, the unset ones left out.
MakeEnv(choice) == [n \in {m \in DOMAIN choice : choice[m] # Unset} |-> choice[n]]

\* Whether value v (of a set variable) passes the schema of key k.
FieldValid(k, v) ==
    CASE k = "DATABASE_URL" -> Len(v) >= 1
      [] k = "NEXTAUTH_SECRET" -> Len(v) >= 32
      [] k \in {"NEXTAUTH_URL", "NEXT_PUBLIC_IMAGEKIT_URL_ENDPOINT",
                "NEXT_PUBLIC_SITE_URL"} -> IsUrl(v)
      [] k = "NODE_ENV" -> v \in {"development", "production", "test"}
      [] OTHER -> TRUE
\* Keys the schema requires: the others are .optional() or have a .default().
RequiredKeys == {"DATABASE_URL"}

\* envSchema.safeParse(pe): success, the keys with issues, and the data:
\* the declared keys only, NODE_ENV defaulted to 'development'.
safeParse(pe) ==
    LET issues == {k \in SchemaKeys :
                      IF k \in DOMAIN pe THEN ~FieldValid(k, pe[k])
                      ELSE k \in RequiredKeys}
        keys == (DOMAIN pe \cap SchemaKeys) \cup {"NODE_ENV"}
    IN  [success |-> issues = {},
         issues |-> issues,
         data |-> [k \in keys |-> IF k \in DOMAIN pe THEN pe[k]
                                  ELSE "development"]]

\* A catch block with the test turned round: rethrows unless in production.
validateEnvInverted(pe) ==
    LET parsed == safeParse(pe)
    IN  IF parsed.success
        THEN [threw |-> FALSE, message |-> "", value |-> parsed.data]
        ELSE IF ~("NODE_ENV" \in DOMAIN pe /\ pe["NODE_ENV"] = "production")
             THEN [threw |-> TRUE, message |-> "Invalid environment variables",
                   value |-> <<>>]
             ELSE [threw |-> FALSE, message |-> "", value |-> pe]

\* validateEnv(): the parsed data; when the parse fails the error thrown in
\* the try block is caught, rethrown in production, and otherwise process.env
\* itself is returned.
validateEnv(pe) ==
    LET parsed == safeParse(pe)
    IN  IF parsed.success
        THEN [threw |-> FALSE, message |-> "", value |-> parsed.data]
        ELSE IF "NODE_ENV" \in DOMAIN pe /\ pe["NODE_ENV"] = "production"
             THEN [threw |-> TRUE, message |-> "Invalid environment variables",
                   value |-> <<>>]
             ELSE [threw |-> FALSE, message |-> "", value |-> pe]

EnvInit ==
    /\ \E db \in Options("DATABASE_URL"), secret \in Options("NEXTAUTH_SECRET"),
          authUrl \in Options("NEXTAUTH_URL"),
          pk \in Options("NEXT_PUBLIC_IMAGEKIT_PUBLIC_KEY"),
          sk \in Options("IMAGEKIT_PRIVATE_KEY"),
          endpoint \in Options("NEXT_PUBLIC_IMAGEKIT_URL_ENDPOINT"),
          nodeEnv \in Options("NODE_ENV"), site \in Options("NEXT_PUBLIC_SITE_URL"),
          path \in Options("PATH") :
          processEnv = MakeEnv([DATABASE_URL |-> db, NEXTAUTH_SECRET |-> secret,
                                NEXTAUTH_URL |-> authUrl,
                                NEXT_PUBLIC_IMAGEKIT_PUBLIC_KEY |-> pk,
                                IMAGEKIT_PRIVATE_KEY |-> sk,
                                NEXT_PUBLIC_IMAGEKIT_URL_ENDPOINT |-> endpoint,
                                NODE_ENV |-> nodeEnv, NEXT_PUBLIC_SITE_URL |-> site,
                                PATH |-> path])
    /\ envStatus = "unloaded"
    /\ env = <<>>
    /\ envError = ""

\* The module is imported: export const env = validateEnv();
LoadEnvModule ==
    /\ UNCHANGED notEnv
    /\ envStatus = "unloaded"
    /\ LET r == validateEnv(processEnv)
       IN  /\ envStatus' = IF r.threw THEN "threw" ELSE "exported"
           /\ env' = r.value
           /\ envError' = r.message
    /\ UNCHANGED processEnv

EnvNext == LoadEnvModule

\* What C8 calls an environment that satisfies the schema.
SatisfiesSchema(pe) ==
    /\ "DATABASE_URL" \in DOMAIN pe /\ pe["DATABASE_URL"] # ""
    /\ "NEXTAUTH_SECRET" \in DOMAIN pe => Len(pe["NEXTAUTH_SECRET"]) >= 32
    /\ \A k \in {"NEXTAUTH_URL", "NEXT_PUBLIC_IMAGEKIT_URL_ENDPOINT",
                 "NEXT_PUBLIC_SITE_URL"} : k \in DOMAIN pe => IsUrl(pe[k])
    /\ "NODE_ENV" \in DOMAIN pe
          => pe["NODE_ENV"] \in {"development", "production", "test"}
InProduction(pe) == "NODE_ENV" \in DOMAIN pe /\ pe["NODE_ENV"] = "production"

\* C8 as claimed: an environment that does not satisfy the schema makes the
\* load fail with 'Invalid environment variables' and export nothing; env is
\* exported only for environments that satisfy the schema.
EnvStrict ==
    envStatus # "unloaded" =>
        /\ ~SatisfiesSchema(processEnv)
              => envStatus = "threw" /\ envError = "Invalid environment variables"
        /\ envStatus = "exported" => SatisfiesSchema(processEnv)

\* C8 as amended: the load fails so only when NODE_ENV is 'production';
\* with any other NODE_ENV, or none, an environment that does not satisfy
\* the schema is exported as it is, unvalidated; one that satisfies it is
\* exported parsed (declared keys only, NODE_ENV defaulted).
EnvStrictInProduction ==
    envStatus # "unloaded" =>
        /\ (~SatisfiesSchema(processEnv) /\ InProduction(processEnv))
              => /\ envStatus = "threw"
                 /\ envError = "Invalid environment variables"
                 /\ env = <<>>
        /\ (~SatisfiesSchema(processEnv) /\ ~InProduction(processEnv))
              => envStatus = "exported" /\ env = processEnv
        /\ SatisfiesSchema(processEnv)
              => /\ envStatus = "exported"
                 /\ DOMAIN env = (DOMAIN processEnv \cap SchemaKeys) \cup {"NODE_ENV"}
                 /\ \A k \in DOMAIN env :
                       env[k] = IF k \in DOMAIN processEnv THEN processEnv[k]
                                ELSE "development"

\* A production load without DATABASE_URL has failed.
EnvStrictWitness ==
    /\ envStatus = "threw"
    /\ "DATABASE_URL" \notin DOMAIN processEnv
    /\ InProduction(processEnv)

(***************************************************************************)
(* API route handlers                                                      *)
(*   POST /api/upload            src/src/app/api/upload/route.ts           *)
(*   GET, POST, DELETE /api/admin/media   src/src/app/api/admin/media      *)
(*   POST /api/article-view      src/unnamed/part_002                      *)
(*   GET /api/pages              src/src/app/api/pages/route.ts            *)
(* A handler is an operator from the request and the state it reads to the *)
(* way it ends (a JSON response, or an exception that escapes it), the     *)
(* state it leaves and the calls it made to the database and to ImageKit.  *)
(***************************************************************************)

\* Longest uploadedFiles list of a run.
MaxUploads == 2
\* Largest view count of a run.
MaxViews == 1
\* The values Date.now() takes in a run: requests in one millisecond, and
\* in the next.
Milliseconds == {1000, 1001}

\* const maxSize = 10 * 1024 * 1024
MaxFileSize == 10485760

NoFile == [name |-> <<>>, type |-> "", size |-> -1]
\* File names are sequences of characters.
SmallFile == [name |-> <<"a", ".", "p", "n", "g">>, type |-> "image/png",
              size |-> 1000]
LargestFile == [name |-> <<"m", "y", " ", "T", "V", "_", "1", ".", "g", "i", "f">>,
                type |-> "image/gif", size |-> MaxFileSize]
Files ==
    {LargestFile,
     [name |-> <<"b", "i", "g", ".", "p", "n", "g">>, type |-> "image/png",
      size |-> MaxFileSize + 1],
     [name |-> <<"b", ".", "p", "d", "f">>, type |-> "application/pdf",
      size |-> 1000]}
\* The image types and PDF.
allowedTypesAndPdf ==
    {"image/jpeg", "image/jpg", "image/png", "image/webp", "image/gif",
     "application/pdf"}

allowedTypes == {"image/jpeg", "image/jpg", "image/png", "image/webp", "image/gif"}

\* What can go wrong while a request is handled, besides the database:
\* the body does not parse (formData(), json()), the file cannot be read
\* (arrayBuffer()), the ImageKit upload is rejected.
Faults == {"none", "body", "read", "imagekit"}

JsonResponse(status, body) == [kind |-> "json", status |-> status, body |-> body]
\* An exception that leaves the handler.
Uncaught == [kind |-> "uncaught", status |-> 0, body |-> <<>>]
\* How a handler's try block ends: with a response, or by throwing.
Return(resp, files, arts, dbCalls, ikCalls) ==
    [threw |-> FALSE, response |-> resp, uploadedFiles |-> files,
     articles |-> arts, dbCalls |-> dbCalls, ikCalls |-> ikCalls]
Throw(files, arts, dbCalls, ikCalls) ==
    [threw |-> TRUE, response |-> Uncaught, uploadedFiles |-> files,
     articles |-> arts, dbCalls |-> dbCalls, ikCalls |-> ikCalls]
\* A handler whose body is not inside try/catch.
TryCatchMissing(body, caught) == body

\* try { body } catch (error) { return caught }
TryCatch(body, caught) ==
    IF body.threw THEN [body EXCEPT !.threw = FALSE, !.response = caught]
    ELSE body

\* safeDbOperation(operation, fallback), on whether the operation succeeds:
\* its result, and on failure the fallback or the error.
safeDbOperation(succeeds, result, fallback) ==
    IF succeeds THEN [threw |-> FALSE, value |-> result]
    ELSE IF safeDbRethrows THEN [threw |-> TRUE, value |-> fallback]
    ELSE [threw |-> FALSE, value |-> fallback]

\* A sum that leaves out the first element.
SumOfRest(seq, field) ==
    LET sum[k \in 1..(Len(seq) + 1)] ==
            IF k > Len(seq) THEN 0 ELSE seq[k][field] + sum[k + 1]
    IN  sum[2 - (IF seq = <<>> THEN 1 ELSE 0)]

RECURSIVE SumOf(_, _)
\* array.reduce((sum, file) => sum + file[field], 0)
SumOf(seq, field) ==
    IF seq = <<>> THEN 0 ELSE seq[1][field] + SumOf(Tail(seq), field)

\* ---- POST /api/upload
\* Of a response the model keeps the fields the handler computes from the
\* request and the clock; the URLs and what ImageKit answers are left out.

\* altText || `IPTV related image - ${context || 'Blog content'}`
AltTextOf(req) ==
    IF req.altText # "" THEN req.altText
    ELSE "IPTV related image - " \o
            (IF req.context # "" THEN req.context ELSE "Blog content")

UploadPOSTBody(req, files, arts) ==
    IF ~imagekit
    THEN IF req.fault = "body" THEN Throw(files, arts, 0, 0)
         ELSE IF req.file = NoFile
         THEN Return(JsonResponse(400, [error |-> "No file uploaded"]),
                     files, arts, 0, 0)
         ELSE Return(JsonResponse(200,
                        [success |-> TRUE,
                         fileId |-> "fallback-" \o ToString(dateNow),
                         filename |-> "fallback-" \o Text(req.file.name),
                         size |-> req.file.size,
                         altText |-> AltTextOf(req),
                         description |-> "Fallback IPTV image (ImageKit not configured)",
                         cacheVersion |-> dateNow]),
                     files, arts, 0, 0)
    ELSE IF req.fault = "body" THEN Throw(files, arts, 0, 0)
    ELSE IF req.file = NoFile
    THEN Return(JsonResponse(400, [error |-> "No file uploaded"]), files, arts, 0, 0)
    ELSE IF req.file.type \notin allowedTypes
    THEN Return(JsonResponse(400,
                   [error |-> "Invalid file type. Only images are allowed."]),
                files, arts, 0, 0)
    ELSE IF req.file.size > MaxFileSize
    THEN Return(JsonResponse(400,
                   [error |-> "File too large. Maximum size is 10MB."]),
                files, arts, 0, 0)
    ELSE IF req.fault = "read" THEN Throw(files, arts, 0, 0)
    ELSE IF req.fault = "imagekit" THEN Throw(files, arts, 0, 1)
    ELSE Return(JsonResponse(200,
                   [success |-> TRUE,
                    altText |-> AltTextOf(req),
                    description |-> IF req.description # "" THEN req.description
                                    ELSE "SEO optimized image for IPTV blog",
                    cacheVersion |-> dateNow]),
                files, arts, 0, 1)

UploadPOST(req, files, arts) ==
    TryCatch(UploadPOSTBody(req, files, arts),
             JsonResponse(500, [error |-> "Failed to upload file to ImageKit"]))

\* ---- GET /api/admin/media

\* The media table, as findMany returns it (createdAt descending).
MediaRows ==
    << [id |-> "m2", filename |-> "two.png", originalName |-> "Two.png",
        fileSize |-> 700, mimeType |-> "image/png", createdAt |-> 2,
        articles |-> << [title |-> "Post A", slug |-> "post-a"],
                        [title |-> "Post B", slug |-> "post-b"] >>],
       [id |-> "m1", filename |-> "one.webp", originalName |-> "One.webp",
        fileSize |-> 300, mimeType |-> "image/webp", createdAt |-> 1,
        articles |-> <<>>] >>
\* The three records of the catch block.
mockData ==
    << [id |-> "1", filename |-> "iptv-player-comparison.jpg",
        originalName |-> "IPTV Player Comparison.jpg", size |-> 245760,
        mimeType |-> "image/jpeg", usedInArticles |-> 2,
        articleTitles |-> <<"Best IPTV Players 2024", "IPTV Setup Guide">>,
        articleSlugs |-> <<"best-iptv-players-2024", "iptv-setup-guide">>],
       [id |-> "2", filename |-> "firestick-iptv-setup.png",
        originalName |-> "Firestick IPTV Setup Guide.png", size |-> 189440,
        mimeType |-> "image/png", usedInArticles |-> 1,
        articleTitles |-> <<"Firestick IPTV Guide">>,
        articleSlugs |-> <<"firestick-iptv-guide">>],
       [id |-> "3", filename |-> "tivimate-interface.webp",
        originalName |-> "TiviMate Interface Screenshot.webp", size |-> 156320,
        mimeType |-> "image/webp", usedInArticles |-> 3,
        articleTitles |-> <<"TiviMate Review", "Best IPTV Apps",
                            "IPTV Player Comparison">>,
        articleSlugs |-> <<"tivimate-review", "best-iptv-apps",
                           "iptv-player-comparison">>] >>

MediaList(list) ==
    JsonResponse(200,
        [success |-> TRUE,
         data |-> [files |-> list,
                   stats |-> [totalFiles |-> Len(list),
                              totalSize |-> SumOf(list, "size"),
                              totalUsage |-> SumOf(list, "usedInArticles")]]])

MediaGETBody(files, arts) ==
    LET found == safeDbOperation(dbUp, MediaRows, <<>>)
        transformedFiles ==
            [i \in DOMAIN found.value |->
                [id |-> found.value[i].id,
                 filename |-> found.value[i].filename,
                 originalName |-> found.value[i].originalName,
                 size |-> found.value[i].fileSize,
                 mimeType |-> found.value[i].mimeType,
                 usedInArticles |-> Len(found.value[i].articles),
                 articleTitles |-> [a \in DOMAIN found.value[i].articles |->
                                       found.value[i].articles[a].title],
                 articleSlugs |-> [a \in DOMAIN found.value[i].articles |->
                                      found.value[i].articles[a].slug]]]
    IN  IF found.threw THEN Throw(files, arts, 1, 0)
        ELSE Return(MediaList(transformedFiles), files, arts, 1, 0)

MediaGET(files, arts) ==
    TryCatch(MediaGETBody(files, arts), MediaList(mockData \o files))

\* ---- POST /api/admin/media

\* file.name.replace(/[^a-zA-Z0-9.-]/g, '-')
SafeFileName(name) ==
    [i \in 1..Len(name) |->
        IF name[i] \in LowerSet \cup UpperSet \cup Digits \cup {".", "-"}
        THEN name[i] ELSE "-"]

MediaPOSTBody(req, files, arts) ==
    IF req.fault = "body" THEN Throw(files, arts, 0, 0)
    ELSE IF req.file = NoFile
    THEN Return(JsonResponse(400, [success |-> FALSE, error |-> "No file provided"]),
                files, arts, 0, 0)
    ELSE IF req.file.type \notin allowedTypes
    THEN Return(JsonResponse(400,
                   [success |-> FALSE,
                    error |-> "Invalid file type. Only images are allowed."]),
                files, arts, 0, 0)
    ELSE IF req.file.size > MaxFileSize
    THEN Return(JsonResponse(400,
                   [success |-> FALSE,
                    error |-> "File too large. Maximum size is 10MB."]),
                files, arts, 0, 0)
    ELSE IF req.fault = "read" THEN Throw(files, arts, 0, 0)
    ELSE LET uploadedFile == [id |-> ToString(dateNow),
                              filename |-> Text(SafeFileName(req.file.name)),
                              originalName |-> Text(req.file.name),
                              size |-> req.file.size,
                              mimeType |-> req.file.type,
                              usedInArticles |-> 0,
                              articleTitles |-> <<>>,
                              articleSlugs |-> <<>>]
         IN  Return(JsonResponse(201,
                       [success |-> TRUE, data |-> uploadedFile,
                        message |-> "File uploaded successfully"]),
                    Append(files, uploadedFile), arts, 0, 0)

MediaPOST(req, files, arts) ==
    TryCatch(MediaPOSTBody(req, files, arts),
             JsonResponse(500, [success |-> FALSE, error |-> "Failed to upload file"]))

\* ---- DELETE /api/admin/media

\* A DELETE that answers 404 when no record had the id.
DeleteAnswerNotFound(removedAny) ==
    IF removedAny
    THEN JsonResponse(200, [success |-> TRUE, message |-> "File deleted successfully"])
    ELSE JsonResponse(404, [success |-> FALSE, error |-> "File not found"])

\* Both branches of the length test answer alike.
DeleteAnswer(removedAny) ==
    IF removedAny
    THEN JsonResponse(200, [success |-> TRUE, message |-> "File deleted successfully"])
    ELSE JsonResponse(200, [success |-> TRUE, message |-> "File deleted successfully"])

\* No id parameter, or an empty one.
NoId == ""

MediaDELETEBody(req, files, arts) ==
    IF req.id = NoId
    THEN Return(JsonResponse(400, [success |-> FALSE, error |-> "File ID is required"]),
                files, arts, 0, 0)
    ELSE LET kept == SelectSeq(files, LAMBDA f : f.id # req.id)
         IN  Return(DeleteAnswer(Len(kept) < Len(files)), kept, arts, 0, 0)

MediaDELETE(req, files, arts) ==
    TryCatch(MediaDELETEBody(req, files, arts),
             JsonResponse(500, [success |-> FALSE, error |-> "Failed to delete file"]))

\* ---- POST /api/article-view

ArticleViewPOSTBody(req, files, arts) ==
    IF req.fault = "body" THEN Throw(files, arts, 0, 0)
    ELSE IF req.slug = ""
    THEN Return(JsonResponse(400, [success |-> FALSE,
                                   error |-> "Article slug is required"]),
                files, arts, 0, 0)
    ELSE LET matches == /\ dbUp
                        /\ req.slug \in DOMAIN arts
                        /\ arts[req.slug].status = "PUBLISHED"
             updated == IF matches
                        THEN [arts EXCEPT ![req.slug].viewCount = @ + 1]
                        ELSE arts
             article == safeDbOperation(matches,
                           [slug |-> req.slug,
                            viewCount |-> IF matches THEN updated[req.slug].viewCount
                                          ELSE 0],
                           <<>>)
         IN  IF article.threw THEN Throw(files, updated, 1, 0)
             ELSE IF article.value = <<>>
             THEN Return(JsonResponse(404, [success |-> FALSE,
                                            error |-> "Article not found"]),
                         files, updated, 1, 0)
             ELSE Return(JsonResponse(200, [success |-> TRUE, data |-> article.value]),
                         files, updated, 1, 0)

\* A handler that counts the view twice.
ArticleViewPOSTTwice(req, files, arts) ==
    LET once == TryCatch(ArticleViewPOSTBody(req, files, arts),
                         JsonResponse(500, [success |-> FALSE,
                                            error |-> "Failed to increment view count"]))
        body == ArticleViewPOSTBody(req, once.uploadedFiles, once.articles)
    IN  TryCatch(body, JsonResponse(500, [success |-> FALSE,
                                          error |-> "Failed to increment view count"]))

ArticleViewPOST(req, files, arts) ==
    TryCatch(ArticleViewPOSTBody(req, files, arts),
             JsonResponse(500, [success |-> FALSE,
                                error |-> "Failed to increment view count"]))

\* ---- GET /api/pages

\* The active pages, as findMany returns them (title ascending).
PageRows == << [id |-> "p1", title |-> "About", slug |-> "about"],
               [id |-> "p2", title |-> "Contact", slug |-> "contact"] >>
fallbackPages == << [id |-> "1", title |-> "Privacy Policy", slug |-> "privacy-policy"],
                    [id |-> "2", title |-> "Terms of Service", slug |-> "terms-of-service"],
                    [id |-> "3", title |-> "Contact", slug |-> "contact"] >>

PagesGETBody(files, arts) ==
    LET pages == safeDbOperation(dbUp, PageRows, <<>>)
    IN  IF pages.threw THEN Throw(files, arts, 1, 0)
        ELSE Return(JsonResponse(200, [success |-> TRUE, pages |-> pages.value]),
                    files, arts, 1, 0)

PagesGET(files, arts) ==
    TryCatch(PagesGETBody(files, arts),
             JsonResponse(200, [success |-> TRUE, pages |-> fallbackPages]))

\* ---- requests

UploadRequests ==
    {[route |-> "POST /api/upload", file |-> f, context |-> "", altText |-> "",
      description |-> "", fault |-> "none"] : f \in Files \cup {NoFile}}
    \cup {[route |-> "POST /api/upload", file |-> SmallFile, context |-> c,
           altText |-> a, description |-> a, fault |-> ft] :
             c \in {"", "Guide"}, a \in {"", "alt"}, ft \in Faults}
MediaPostRequests ==
    {[route |-> "POST /api/admin/media", file |-> f, fault |-> "none"] :
        f \in Files \cup {NoFile}}
    \cup {[route |-> "POST /api/admin/media", file |-> LargestFile, fault |-> ft] :
             ft \in {"body", "read"}}
MediaDeleteRequests ==
    {[route |-> "DELETE /api/admin/media", id |-> i] :
        i \in {NoId} \cup {ToString(t) : t \in Milliseconds}}
ArticleViewRequests ==
    {[route |-> "POST /api/article-view", slug |-> sl, fault |-> "none"] :
        sl \in {"", "post-a", "draft", "missing"}}
    \cup {[route |-> "POST /api/article-view", slug |-> "post-a", fault |-> "body"]}
MediaGetRequest == [route |-> "GET /api/admin/media"]
PagesGetRequest == [route |-> "GET /api/pages"]
Requests ==
    UploadRequests \cup MediaPostRequests \cup MediaDeleteRequests
        \cup ArticleViewRequests \cup {MediaGetRequest, PagesGetRequest}

\* The framework's dispatch of a request to its route handler.
Handle(req, files, arts) ==
    CASE req.route = "POST /api/upload" -> UploadPOST(req, files, arts)
      [] req.route = "GET /api/admin/media" -> MediaGET(files, arts)
      [] req.route = "POST /api/admin/media" -> MediaPOST(req, files, arts)
      [] req.route = "DELETE /api/admin/media" -> MediaDELETE(req, files, arts)
      [] req.route = "POST /api/article-view" -> ArticleViewPOST(req, files, arts)
      [] req.route = "GET /api/pages" -> PagesGET(files, arts)

ApiInit ==
    /\ uploadedFiles = <<>>
    /\ articleTable = [sl \in {"post-a", "draft"} |->
                      [status |-> IF sl = "draft" THEN "DRAFT" ELSE "PUBLISHED",
                       viewCount |-> 0]]
    /\ dbUp \in BOOLEAN
    /\ safeDbRethrows \in BOOLEAN
    /\ imagekit \in BOOLEAN
    /\ dateNow \in Milliseconds /\ dateNow - 1 \notin Milliseconds
    /\ lastRequest = <<>>
    /\ lastResponse = <<>>
    /\ library = {}

\* The server handles request req to its end.
Serve(req) ==
    LET done == Handle(req, uploadedFiles, articleTable)
    IN  /\ Len(done.uploadedFiles) <= MaxUploads
        /\ \A sl \in DOMAIN done.articles : done.articles[sl].viewCount <= MaxViews
        /\ uploadedFiles' = done.uploadedFiles
        /\ articleTable' = done.articles
        /\ lastRequest' = req
        /\ lastResponse' = [threw |-> done.threw, response |-> done.response,
                            dbCalls |-> done.dbCalls, ikCalls |-> done.ikCalls,
                            listBefore |-> Len(uploadedFiles)]
        /\ library' =
              IF req.route = "POST /api/admin/media" /\ done.response.status = 201
              THEN library \cup {done.response.body.data}
              ELSE IF /\ req.route = "DELETE /api/admin/media"
                      /\ req.id # NoId
                      /\ done.response.status = 200
              THEN {f \in library : f.id # req.id}
              ELSE library
        /\ UNCHANGED <<dbUp, safeDbRethrows, imagekit, dateNow>>

PostUpload == UNCHANGED notApi /\ \E req \in UploadRequests : Serve(req)
GetMedia == UNCHANGED notApi /\ Serve(MediaGetRequest)
PostMedia == UNCHANGED notApi /\ \E req \in MediaPostRequests : Serve(req)
DeleteMedia == UNCHANGED notApi /\ \E req \in MediaDeleteRequests : Serve(req)
PostArticleView == UNCHANGED notApi /\ \E req \in ArticleViewRequests : Serve(req)
GetPages == UNCHANGED notApi /\ Serve(PagesGetRequest)

\* The database goes down or comes back.
DbFlip ==
    /\ UNCHANGED notApi
    /\ dbUp' = ~dbUp
    /\ UNCHANGED <<uploadedFiles, articleTable, safeDbRethrows, imagekit, dateNow,
                   lastRequest, lastResponse, library>>

\* The clock moves on.
ClockTick ==
    /\ UNCHANGED notApi
    /\ dateNow + 1 \in Milliseconds
    /\ dateNow' = dateNow + 1
    /\ UNCHANGED <<uploadedFiles, articleTable, dbUp, safeDbRethrows, imagekit,
                   lastRequest, lastResponse, library>>

ApiNext ==
    \/ PostUpload
    \/ GetMedia
    \/ PostMedia
    \/ DeleteMedia
    \/ PostArticleView
    \/ GetPages
    \/ DbFlip
    \/ ClockTick

\* How the handler of req ends in the current state, were the list files.
ResponseWith(req, files) == Handle(req, files, articleTable).response

\* GET /api/admin/media whose database query throws.
MediaGetFallsBack(req) ==
    req = MediaGetRequest /\ MediaGETBody(uploadedFiles, articleTable).threw

\* C4 (as stated): the response to any request depends only on the request
\* and the database, never on the requests handled before it: whatever
\* earlier POSTs and DELETEs to /api/admin/media left in uploadedFiles, every
\* request is answered as it is with the list empty.
NoSharedState ==
    \A req \in Requests :
        ResponseWith(req, uploadedFiles) = ResponseWith(req, <<>>)

\* C4 (amended): the handlers share the uploadedFiles list of
\* /api/admin/media, and only GET /api/admin/media whose database query
\* throws answers from it: the three mock records followed by the records
\* of the list. Every other request is answered as it is with the list
\* empty.
SharedStateOnlyInMediaFallback ==
    \A req \in Requests :
        IF MediaGetFallsBack(req)
        THEN ResponseWith(req, uploadedFiles) = MediaList(mockData \o uploadedFiles)
        ELSE ResponseWith(req, uploadedFiles) = ResponseWith(req, <<>>)

\* An upload was stored, then a DELETE found nothing to remove, and the GET
\* served last fell back and listed the stored record after the mocks.
SharedStateWitness ==
    /\ lastRequest = MediaGetRequest
    /\ MediaGetFallsBack(MediaGetRequest)
    /\ Len(uploadedFiles) = 1
    /\ uploadedFiles[1].id # ToString(dateNow)
    /\ lastResponse.response.body.data.stats.totalFiles = Len(mockData) + 1
    /\ ResponseWith([route |-> "DELETE /api/admin/media", id |-> ToString(dateNow)],
                    uploadedFiles).status = 200

\* C5: every handler ends every request with an HTTP JSON response, whatever
\* is raised while it parses the body, reads the file, calls the database or
\* uploads to ImageKit; no exception leaves a handler, and the handler calls
\* the database and ImageKit at most once per request.
HandlersAlwaysRespond ==
    /\ \A req \in Requests :
          LET done == Handle(req, uploadedFiles, articleTable)
          IN  /\ ~done.threw
              /\ done.response.kind = "json"
              /\ done.response.status \in {200, 201, 400, 404, 500}
              /\ done.dbCalls <= 1
              /\ done.ikCalls <= 1
    /\ lastResponse # <<>> =>
          /\ ~lastResponse.threw
          /\ lastResponse.response.kind = "json"

\* The ImageKit upload was rejected: one call, answered with status 500.
HandlersAlwaysRespondWitness ==
    /\ lastRequest # <<>>
    /\ lastRequest.route = "POST /api/upload"
    /\ lastRequest.fault = "imagekit"
    /\ imagekit
    /\ lastResponse.ikCalls = 1
    /\ lastResponse.response = JsonResponse(500,
                                  [error |-> "Failed to upload file to ImageKit"])

\* The file of an upload request is as the routes are said to want it: one
\* of the five image types, at most 10MB.
Acceptable(file) ==
    /\ file # NoFile
    /\ file.type \in {"image/jpeg", "image/jpg", "image/png", "image/webp",
                      "image/gif"}
    /\ file.size <= 10 * 1024 * 1024

\* C11: POST /api/upload answers with success only when the file's type is
\* one of the five image types and its size is at most 10*1024*1024 bytes,
\* and answers any other file, or a missing file, with status 400, whether
\* or not ImageKit is configured.
UploadAcceptsOnlyImages ==
    (lastRequest # <<>> /\ lastRequest.route = "POST /api/upload") =>
        /\ lastResponse.response.status = 200 => Acceptable(lastRequest.file)
        /\ (~Acceptable(lastRequest.file) /\ lastRequest.fault = "none") =>
              lastResponse.response.status = 400

\* The files list GET /api/admin/media answers with in the current state.
ListedNow == MediaGET(uploadedFiles, articleTable).response.body.data.files

\* C12: a file accepted by POST /api/admin/media (status 201) is in the files
\* list of every later GET /api/admin/media until a DELETE with its id is
\* handled, and no record with that id is listed once the DELETE is handled.
MediaLibraryListsUploads ==
    /\ lastRequest = MediaGetRequest =>
          \A f \in library :
              \E i \in DOMAIN lastResponse.response.body.data.files :
                  lastResponse.response.body.data.files[i] = f
    /\ (/\ lastRequest # <<>>
        /\ lastRequest.route = "DELETE /api/admin/media"
        /\ lastRequest.id # NoId) =>
          \A i \in DOMAIN ListedNow : ListedNow[i].id # lastRequest.id

\* The article table but for the row of one slug, as a handler leaves it.
OtherRowsKept(arts, slug, after) ==
    /\ DOMAIN after = DOMAIN arts
    /\ \A sl \in DOMAIN arts \ {slug} : after[sl] = arts[sl]
    /\ \A sl \in DOMAIN arts : after[sl].status = arts[sl].status

\* The slug names a PUBLISHED article.
NamesPublished(arts, slug) ==
    slug \in DOMAIN arts /\ arts[slug].status = "PUBLISHED"

\* C17 (as stated): POST /api/article-view with the slug of a PUBLISHED
\* article increases that article's viewCount by exactly 1 and answers with
\* the new viewCount; with a missing or empty slug it answers 400 and with a
\* slug that matches no article or only a non-published one it answers 404,
\* no view count changing; no request changes the view count of an article
\* other than the one its slug names.
ViewCountedOncePerRequest ==
    \A req \in {r \in ArticleViewRequests : r.fault = "none"} :
        LET done == ArticleViewPOST(req, uploadedFiles, articleTable)
        IN  /\ OtherRowsKept(articleTable, req.slug, done.articles)
            /\ IF req.slug = ""
               THEN done.response.status = 400 /\ done.articles = articleTable
               ELSE IF NamesPublished(articleTable, req.slug)
               THEN /\ done.articles[req.slug].viewCount =
                          articleTable[req.slug].viewCount + 1
                    /\ done.response.status = 200
                    /\ done.response.body.data =
                          [slug |-> req.slug,
                           viewCount |-> articleTable[req.slug].viewCount + 1]
               ELSE done.response.status = 404 /\ done.articles = articleTable

\* C17 (amended): the same, the failures of the database included. The view
\* count of a PUBLISHED article increases by exactly 1, and the response
\* carries the new count, when the update succeeds. When the update fails
\* (the database is down, or the slug matches no PUBLISHED article, which
\* makes the update fail) no view count changes and the answer is 404 if
\* safeDbOperation returns its null fallback, 500 if it lets the error
\* through. A missing or empty slug is answered 400 and a body that is not
\* JSON 500, no view count changing. No request changes another article.
ViewCountedOnceWhenUpdated ==
    \A req \in ArticleViewRequests :
        LET done == ArticleViewPOST(req, uploadedFiles, articleTable)
        IN  /\ OtherRowsKept(articleTable, req.slug, done.articles)
            /\ IF req.fault = "body"
               THEN done.response.status = 500 /\ done.articles = articleTable
               ELSE IF req.slug = ""
               THEN done.response.status = 400 /\ done.articles = articleTable
               ELSE IF NamesPublished(articleTable, req.slug) /\ dbUp
               THEN /\ done.articles[req.slug].viewCount =
                          articleTable[req.slug].viewCount + 1
                    /\ done.response.status = 200
                    /\ done.response.body.data =
                          [slug |-> req.slug,
                           viewCount |-> articleTable[req.slug].viewCount + 1]
               ELSE /\ done.articles = articleTable
                    /\ done.response.status = IF safeDbRethrows THEN 500 ELSE 404

\* A view of the published article was counted and answered with the count.
ViewCountedWitness ==
    /\ lastRequest # <<>>
    /\ lastRequest.route = "POST /api/article-view"
    /\ lastRequest.slug = "post-a"
    /\ lastResponse.response.status = 200
    /\ lastResponse.response.body.data.viewCount = 1
    /\ articleTable["post-a"].viewCount = 1
    /\ articleTable["draft"].viewCount = 0

\* C18 (as stated): POST /api/admin/media answers a request with no file,
\* with a file type outside the five image types or with a file larger than
\* 10MB with status 400 and leaves uploadedFiles unchanged; any other request
\* appends exactly one record (usedInArticles 0, empty articleTitles and
\* articleSlugs) to the end of the list, leaves the existing records
\* unchanged and is answered with status 201.
MediaPostAppendsOrRejects ==
    \A req \in MediaPostRequests :
        LET done == MediaPOST(req, uploadedFiles, articleTable)
            before == Len(uploadedFiles)
        IN  IF ~Acceptable(req.file)
            THEN done.response.status = 400 /\ done.uploadedFiles = uploadedFiles
            ELSE /\ done.response.status = 201
                 /\ Len(done.uploadedFiles) = before + 1
                 /\ SubSeq(done.uploadedFiles, 1, before) = uploadedFiles
                 /\ done.uploadedFiles[before + 1].usedInArticles = 0
                 /\ done.uploadedFiles[before + 1].articleTitles = <<>>
                 /\ done.uploadedFiles[before + 1].articleSlugs = <<>>

\* C18 (amended): a request whose body cannot be read as form data is
\* answered with status 500; otherwise a request with no file, with a file
\* type outside the five image types or with a file larger than 10MB is
\* answered with status 400; otherwise a request whose file cannot be read is
\* answered with status 500; all these leave uploadedFiles unchanged. Any
\* other request appends exactly one record (the file's size and type,
\* usedInArticles 0, empty articleTitles and articleSlugs) to the end of the
\* list, leaves the existing records unchanged and is answered with status
\* 201 and that record.
MediaPostAppendsRejectsOrFails ==
    \A req \in MediaPostRequests :
        LET done == MediaPOST(req, uploadedFiles, articleTable)
            before == Len(uploadedFiles)
        IN  IF req.fault = "body"
            THEN done.response.status = 500 /\ done.uploadedFiles = uploadedFiles
            ELSE IF ~Acceptable(req.file)
            THEN done.response.status = 400 /\ done.uploadedFiles = uploadedFiles
            ELSE IF req.fault = "read"
            THEN done.response.status = 500 /\ done.uploadedFiles = uploadedFiles
            ELSE /\ done.response.status = 201
                 /\ Len(done.uploadedFiles) = before + 1
                 /\ SubSeq(done.uploadedFiles, 1, before) = uploadedFiles
                 /\ done.uploadedFiles[before + 1].size = req.file.size
                 /\ done.uploadedFiles[before + 1].mimeType = req.file.type
                 /\ done.uploadedFiles[before + 1].usedInArticles = 0
                 /\ done.uploadedFiles[before + 1].articleTitles = <<>>
                 /\ done.uploadedFiles[before + 1].articleSlugs = <<>>
                 /\ done.response.body.data = done.uploadedFiles[before + 1]

\* A file of exactly 10MB was appended after the record of an earlier
\* upload and answered with status 201.
MediaPostWitness ==
    /\ lastRequest # <<>>
    /\ lastRequest.route = "POST /api/admin/media"
    /\ lastResponse.response.status = 201
    /\ Len(uploadedFiles) = 2
    /\ uploadedFiles[2] = lastResponse.response.body.data
    /\ uploadedFiles[2].size = 10 * 1024 * 1024
    /\ uploadedFiles[1].id # uploadedFiles[2].id

\* C19: DELETE /api/admin/media is idempotent: with an id it removes every
\* in-memory record with that id, leaves the other records unchanged and in
\* the same order, and answers success whether or not a record was removed,
\* so that the same DELETE handled again leaves the list as after the first
\* and is answered alike; without an id it answers 400 and leaves the list
\* unchanged.
DeleteIsIdempotent ==
    \A req \in MediaDeleteRequests :
        LET done == MediaDELETE(req, uploadedFiles, articleTable)
            again == MediaDELETE(req, done.uploadedFiles, done.articles)
            others == {i \in DOMAIN uploadedFiles : uploadedFiles[i].id # req.id}
        IN  IF req.id = NoId
            THEN done.response.status = 400 /\ done.uploadedFiles = uploadedFiles
            ELSE /\ Len(done.uploadedFiles) = Cardinality(others)
                 /\ \A i \in others :
                       done.uploadedFiles[Cardinality({j \in others : j <= i})]
                           = uploadedFiles[i]
                 /\ done.response.status = 200
                 /\ done.response.body.success
                 /\ again.uploadedFiles = done.uploadedFiles
                 /\ again.response = done.response

\* Of two records the DELETE removed the one with its id and kept the other;
\* handled again it finds nothing to remove.
DeleteIsIdempotentWitness ==
    /\ lastRequest # <<>>
    /\ lastRequest.route = "DELETE /api/admin/media"
    /\ lastRequest.id # NoId
    /\ lastResponse.listBefore = 2
    /\ lastResponse.response.status = 200
    /\ Len(uploadedFiles) = 1
    /\ uploadedFiles[1].id # lastRequest.id
    /\ MediaDELETE(lastRequest, uploadedFiles, articleTable).uploadedFiles
          = uploadedFiles

\* The stats of a files list agree with the list.
StatsAgree(data) ==
    LET files == data.files
        sizes[k \in 0..Len(files)] ==
            IF k = 0 THEN 0 ELSE sizes[k - 1] + files[k].size
        usage[k \in 0..Len(files)] ==
            IF k = 0 THEN 0 ELSE usage[k - 1] + files[k].usedInArticles
    IN  /\ data.stats.totalFiles = Len(files)
        /\ data.stats.totalSize = sizes[Len(files)]
        /\ data.stats.totalUsage = usage[Len(files)]

\* C20: in every GET /api/admin/media response, on the database path and on
\* the fallback path, stats.totalFiles is the number of entries in files,
\* stats.totalSize the sum of their sizes and stats.totalUsage the sum of
\* their usedInArticles values.
MediaStatsAgree ==
    /\ StatsAgree(MediaGET(uploadedFiles, articleTable).response.body.data)
    /\ lastRequest = MediaGetRequest =>
          StatsAgree(lastResponse.response.body.data)

\* The fallback path answered with the three mock records and two uploads:
\* five files, the two uploads of 10MB each in the total size.
MediaStatsWitness ==
    /\ lastRequest = MediaGetRequest
    /\ MediaGetFallsBack(MediaGetRequest)
    /\ Len(uploadedFiles) = 2
    /\ lastResponse.response.body.data.stats.totalFiles = 5
    /\ lastResponse.response.body.data.stats.totalSize =
          245760 + 189440 + 156320 + 2 * 10 * 1024 * 1024
    /\ lastResponse.response.body.data.stats.totalUsage = 6

(***************************************************************************)
(* SEO analysis utilities (src/unnamed/part_003)                           *)
(* A string is a sequence of one-character strings. The regular            *)
(* expressions of the source are computed position by position.            *)
(***************************************************************************)

\* \w
WordChars == LowerSet \cup UpperSet \cup Digits \cup {"_"}
Vowels == {"a", "e", "i", "o", "u", "y"}
Quotes == {"\"", "'"}
\* [.!?]
SentenceEnds == {".", "!", "?"}

\* The positions of s that hold a character of chars.
Positions(s, chars) == {i \in 1..Len(s) : s[i] \in chars}
\* s without the characters at the positions of drop.
Without(s, drop) ==
    LET idx == SelectSeq([i \in 1..Len(s) |-> i], LAMBDA i : i \notin drop)
    IN  SubSeq([j \in 1..Len(idx) |-> s[idx[j]]], 1, Len(idx))
\* The first position from i on, up to n, whose character is in chars;
\* n + 1 if there is none.
NextIn(s, chars, i, n) ==
    IF \E k \in i..n : s[k] \in chars
    THEN CHOOSE k \in i..n : s[k] \in chars
    ELSE n + 1
\* The last position up to i whose character is in chars; 0 if none.
PrevIn(s, chars, i) ==
    IF \E d \in 0..(i - 1) : s[i - d] \in chars
    THEN i - (CHOOSE d \in 0..(i - 1) : s[i - d] \in chars)
    ELSE 0
\* The first position from i on, up to n, whose character is not in chars.
NextNotIn(s, chars, i, n) ==
    IF \E k \in i..n : s[k] \notin chars
    THEN CHOOSE k \in i..n : s[k] \notin chars
    ELSE n + 1
\* The last position up to i whose character is not in chars; 0 if none.
PrevNotIn(s, chars, i) ==
    IF \E d \in 0..(i - 1) : s[i - d] \notin chars
    THEN i - (CHOOSE d \in 0..(i - 1) : s[i - d] \notin chars)
    ELSE 0
\* Whether sub occurs in s at position i, letter case aside.
OccursAtIgnoreCase(s, sub, i) ==
    /\ i >= 1
    /\ i + Len(sub) - 1 <= Len(s)
    /\ \A k \in 1..Len(sub) : toLowerChar(s[i + k - 1]) = sub[k]

stopWords ==
    {<<"t", "h", "e">>,
     <<"a">>,
     <<"a", "n">>,
     <<"a", "n", "d">>,
     <<"o", "r">>,
     <<"b", "u", "t">>,
     <<"i", "n">>,
     <<"o", "n">>,
     <<"a", "t">>,
     <<"t", "o">>,
     <<"f", "o", "r">>,
     <<"o", "f">>,
     <<"w", "i", "t", "h">>,
     <<"b", "y">>,
     <<"f", "r", "o", "m">>,
     <<"a", "s">>,
     <<"i", "s">>,
     <<"w", "a", "s">>,
     <<"a", "r", "e">>,
     <<"b", "e">>,
     <<"b", "e", "e", "n">>,
     <<"b", "e", "i", "n", "g">>,
     <<"h", "a", "v", "e">>,
     <<"h", "a", "s">>,
     <<"h", "a", "d">>,
     <<"d", "o">>,
     <<"d", "o", "e", "s">>,
     <<"d", "i", "d">>,
     <<"w", "i", "l", "l">>,
     <<"w", "o", "u", "l", "d">>,
     <<"s", "h", "o", "u", "l", "d">>,
     <<"c", "o", "u", "l", "d">>,
     <<"m", "a", "y">>,
     <<"m", "i", "g", "h", "t">>,
     <<"m", "u", "s", "t">>,
     <<"c", "a", "n">>,
     <<"h", "o", "w">>,
     <<"w", "h", "a", "t">>,
     <<"w", "h", "e", "n">>,
     <<"w", "h", "e", "r", "e">>,
     <<"w", "h", "y">>,
     <<"w", "h", "i", "c", "h">>,
     <<"w", "h", "o">>,
     <<"b", "e", "s", "t">>,
     <<"t", "o", "p">>,
     <<"g", "u", "i", "d", "e">>,
     <<"t", "u", "t", "o", "r", "i", "a", "l">>,
     <<"2", "0", "2", "4">>,
     <<"2", "0", "2", "5">>}

\* text.split(/\s+/).filter(word => word.length > 0)
SplitWords(text) ==
    LET n == Len(text)
        starts == SelectSeq([i \in 1..n |-> i],
                     LAMBDA i : /\ text[i] \notin WhiteSpace
                                /\ (i = 1 \/ text[i - 1] \in WhiteSpace))
    IN  [k \in 1..Len(starts) |->
            SubSeq(text, starts[k], NextIn(text, WhiteSpace, starts[k], n) - 1)]

extractFocusKeyword(title, tags) ==
    LET cleaned == SelectSeq(toLowerCase(title),
                             LAMBDA c : c \in WordChars \cup WhiteSpace)
        titleWords == SelectSeq(SplitWords(cleaned),
                                LAMBDA word : Len(word) > 2 /\ word \notin stopWords)
    IN  IF Len(titleWords) >= 2 THEN titleWords[1] \o <<" ">> \o titleWords[2]
        ELSE IF Len(tags) > 0 THEN toLowerCase(tags[1])
        ELSE IF Len(titleWords) >= 1 THEN titleWords[1]
        ELSE <<>>

\* text.trim().split(/\s+/).filter(word => word.length > 0).length
countWords(text) ==
    Cardinality({i \in 1..Len(text) :
                    /\ text[i] \notin WhiteSpace
                    /\ (i = 1 \/ text[i - 1] \in WhiteSpace)})

\* The characters a pattern cannot use as themselves.
SyntaxChars == {"\\", "^", "$", ".", "|", "?", "*", "+", "(", ")", "[", "]", "{", "}"}
Quantifiers == {"*", "+", "?"}
\* new RegExp(pattern, 'g') throws a SyntaxError: a quantifier with nothing to
\* repeat, a group or a class left open, a ')' with no '(', a '\' at the end.
\* The patterns of the model are made of plain characters, '.', quantifiers
\* and parentheses.
RegExpThrows(pattern) ==
    \/ \E i \in 1..Len(pattern) :
          /\ pattern[i] \in Quantifiers
          /\ \/ i = 1
             \/ pattern[i - 1] \in {"(", "|"}
             \/ pattern[i - 1] \in Quantifiers /\ pattern[i] # "?"
    \/ Cardinality(Positions(pattern, {"("})) # Cardinality(Positions(pattern, {")"}))
    \/ \E i \in 1..Len(pattern) :
          pattern[i] = "[" /\ \A k \in (i + 1)..Len(pattern) : pattern[k] # "]"
    \/ Len(pattern) > 0 /\ pattern[Len(pattern)] = "\\"
            /\ (Len(pattern) = 1 \/ pattern[Len(pattern) - 1] # "\\")

\* Whether the pattern (plain characters and '.') matches text at position i.
PatternAt(text, pattern, i) ==
    /\ i + Len(pattern) - 1 <= Len(text)
    /\ \A k \in 1..Len(pattern) :
          IF pattern[k] = "." THEN text[i + k - 1] # "\n"
          ELSE text[i + k - 1] = pattern[k]

RECURSIVE MatchStartsAt(_, _, _)
\* Whether the global match takes the occurrence at p: no match taken before
\* it reaches into it.
MatchStartsAt(text, pattern, p) ==
    /\ p >= 1
    /\ PatternAt(text, pattern, p)
    /\ \A q \in (p - Len(pattern) + 1)..(p - 1) : ~MatchStartsAt(text, pattern, q)

\* (text.match(new RegExp(pattern, 'g')) || []).length, for a pattern that
\* RegExp accepts; the empty pattern matches before every character and at
\* the end.
MatchCount(text, pattern) ==
    IF pattern = <<>> THEN Len(text) + 1
    ELSE Cardinality({p \in 1..Len(text) : MatchStartsAt(text, pattern, p)})

\* An exception thrown by the function.
Thrown(error) == [threw |-> TRUE, error |-> error, value |-> <<>>]
Returned(value) == [threw |-> FALSE, error |-> "", value |-> value]

\* A quotient, kept exact: num / den.
Ratio(num, den) == [num |-> num, den |-> den]

\* The density in percent, (keywordCount / totalWords) * 100.
calculateKeywordDensity(content, keyword) ==
    IF keyword = <<>> THEN Returned(Ratio(0, 1))
    ELSE IF RegExpThrows(toLowerCase(keyword)) THEN Thrown("SyntaxError")
    ELSE LET keywordCount == MatchCount(toLowerCase(content), toLowerCase(keyword))
             totalWords == countWords(content)
         IN  IF totalWords > 0 THEN Returned(Ratio(keywordCount * 100, totalWords))
             ELSE Returned(Ratio(0, 1))

keywordInText(text, keyword) ==
    keyword # <<>> /\ includes(toLowerCase(text), toLowerCase(keyword))

\* content.replace(/<[^>]*>/g, ''): a '<' opens a tag when a '>' follows it
\* somewhere, and the tag runs to the first such '>'.
StripTags(content) ==
    LET lt == Positions(content, {"<"})
        gt == Positions(content, {">"})
        lastGt == IF gt = {} THEN 0 ELSE CHOOSE k \in gt : \A j \in gt : j <= k
        InTag(i) ==
            /\ i <= lastGt
            /\ LET before == {k \in gt : k < i}
                   g == IF before = {} THEN 0
                        ELSE CHOOSE k \in before : \A j \in before : j <= k
               IN  \E j \in lt : g < j /\ j <= i
    IN  IF lt = {} \/ gt = {} THEN content
        ELSE Without(content, {i \in 1..lastGt : InTag(i)})

\* The first position p from i on with text[p] = text[p + 1] = "\n";
\* Len(text) + 1 if there is none.
NextBreak(text, i) ==
    LET n == Len(text)
    IN  IF \E p \in i..(n - 1) : text[p] = "\n" /\ text[p + 1] = "\n"
        THEN CHOOSE p \in i..(n - 1) : text[p] = "\n" /\ text[p + 1] = "\n"
        ELSE n + 1

\* text.split(/\n\n+/)[0] || ''
getFirstParagraph(content) ==
    LET text == StripTags(content)
    IN  SubSeq(text, 1, NextBreak(text, 1) - 1)

\* The last of the pieces of text.split(/\n\n+/) that is not white space only.
getLastParagraph(content) ==
    LET text == StripTags(content)
        last == PrevNotIn(text, WhiteSpace, Len(text))
        breakEnd ==
            IF \E d \in 1..(last - 2) :
                   text[last - d] = "\n" /\ text[last - d - 1] = "\n"
            THEN last - (CHOOSE d \in 1..(last - 2) :
                            text[last - d] = "\n" /\ text[last - d - 1] = "\n")
            ELSE 0
    IN  IF last = 0 THEN <<>>
        ELSE SubSeq(text, breakEnd + 1, NextBreak(text, last) - 1)

\* Whether content.match(/<name[^>]*>/gi) has a match that starts at j: the
\* name follows the '<', a '>' follows the name, and no '<name' before j is
\* still waiting for its '>' at j.
TagMatchAt(content, name, gt, j) ==
    /\ content[j] = "<"
    /\ OccursAtIgnoreCase(content, name, j + 1)
    /\ \E k \in gt : k > j + Len(name)
    /\ \A i \in Positions(content, {"<"}) :
          (i < j /\ OccursAtIgnoreCase(content, name, i + 1))
              => \E k \in gt : i + Len(name) < k /\ k < j

\* The matches of /<name[^>]*>/gi, each as its first and last position.
TagMatches(content, name) ==
    LET n == Len(content)
        gt == Positions(content, {">"})
    IN  {[first |-> j, last |-> NextIn(content, {">"}, j + Len(name) + 1, n)] :
            j \in {i \in Positions(content, {"<"}) : TagMatchAt(content, name, gt, i)}}

countHeadings(content) ==
    [h1 |-> Cardinality(TagMatches(content, <<"h", "1">>)),
     h2 |-> Cardinality(TagMatches(content, <<"h", "2">>)),
     h3 |-> Cardinality(TagMatches(content, <<"h", "3">>))]

\* The positions h of first..last where attr=["'] stands and the quote is
\* closed by the next quote character, at or before last.
AttrStarts(content, attr, first, last) ==
    {h \in first..(last - Len(attr) - 1) :
        /\ OccursAtIgnoreCase(content, attr, h)
        /\ content[h + Len(attr)] \in Quotes
        /\ NextIn(content, Quotes, h + Len(attr) + 1, last) <= last}

\* const currentDomain = 'iptv-blogg.site'
currentDomain ==
    <<"i", "p", "t", "v", "-", "b", "l", "o", "g", "g", ".", "s", "i", "t", "e">>
HrefAttr == <<"h", "r", "e", "f", "=">>
AltAttr == <<"a", "l", "t", "=">>

\* The <a ... href="..." ...> tags of the content, each with its href. The
\* attribute values of the model's contents hold no '>', so that a match of
\* /<a[^>]*href=["']([^"']*)["'][^>]*>/gi is a tag with an href attribute.
Links(content) ==
    LET anchors == TagMatches(content, <<"a">>)
        withHref == {t \in anchors :
                        AttrStarts(content, HrefAttr, t.first, t.last) # {}}
    IN  {[first |-> t.first,
          href |-> LET hs == AttrStarts(content, HrefAttr, t.first, t.last)
                       h == CHOOSE x \in hs : \A y \in hs : x <= y
                   IN  SubSeq(content, h + 6,
                              NextIn(content, Quotes, h + 6, t.last) - 1)] :
            t \in withHref}

startsWith(s, prefix) == OccursAt(s, prefix, 1)

countLinks(content) ==
    LET links == Links(content)
        IsInternal(href) ==
            startsWith(href, <<"/">>) \/ includes(href, currentDomain)
    IN  [internal |-> Cardinality({l \in links : IsInternal(l.href)}),
         external |-> Cardinality({l \in links :
                          /\ ~IsInternal(l.href)
                          /\ startsWith(l.href, <<"h", "t", "t", "p">>)})]

countImages(content) ==
    LET images == TagMatches(content, <<"i", "m", "g">>)
    IN  [total |-> Cardinality(images),
         withAlt |-> Cardinality({img \in images :
                        \E a \in AttrStarts(content, AltAttr, img.first, img.last) :
                            content[a + 5] \notin Quotes})]

\* The number of syllables the source estimates: for every run of word
\* characters made of the letters a to z only (/\b[a-z]+\b/g), the number of
\* matches of /[aeiouy]{1,2}/g in it, or 1 if it has no vowel.
estimateSyllables(text) ==
    LET lower == toLowerCase(text)
        n == Len(text)
        Counted(i) ==
            LET a == PrevNotIn(lower, WordChars, i) + 1
                b == NextNotIn(lower, WordChars, i, n) - 1
                v == PrevNotIn(lower, Vowels, i) + 1
            IN  /\ \A k \in a..b : lower[k] \in LowerSet
                /\ \/ lower[i] \in Vowels /\ (i - v) % 2 = 0
                   \/ i = a /\ \A k \in a..b : lower[k] \notin Vowels
    IN  Cardinality({i \in 1..n : lower[i] \in LowerSet /\ Counted(i)})

\* text.split(/[.!?]+/).filter(s => s.trim().length > 0).length: the pieces
\* between sentence ends that hold more than white space, counted by their
\* first such character.
countSentences(text) ==
    Cardinality({i \in 1..Len(text) :
        /\ text[i] \notin WhiteSpace \cup SentenceEnds
        /\ LET p == PrevNotIn(text, WhiteSpace, i - 1)
           IN  p = 0 \/ text[p] \in SentenceEnds})

\* The Flesch reading ease 206.835 - 1.015 * (words / sentences)
\* - 84.6 * (syllables / words) in thousandths, limited to 0..100.
calculateReadability(content) ==
    LET text == StripTags(content)
        sentences == countSentences(text)
        words == countWords(text)
        syllables == estimateSyllables(text)
        score == 206835 - (1015 * words) \div sentences
                        - (84600 * syllables) \div words
    IN  IF sentences = 0 \/ words = 0 THEN 0
        ELSE IF score < 0 THEN 0
        ELSE IF score > 100000 THEN 100000
        ELSE score

\* Math.round of a quotient.
MathRound(r) == (2 * r.num + r.den) \div (2 * r.den)
\* Math.ceil of a quotient with a positive denominator.
MathCeil(r) == -((-r.num) \div r.den)
\* 10 to the power d, d up to 2.
PowerOfTen(d) == IF d = 0 THEN 1 ELSE IF d = 1 THEN 10 ELSE 100
\* Number.prototype.toFixed(d) of a quotient that is not negative.
toFixed(r, d) ==
    LET scaled == MathRound(Ratio(r.num * PowerOfTen(d), r.den))
        whole == scaled \div PowerOfTen(d)
        part == scaled % PowerOfTen(d)
    IN  IF d = 0 THEN ToString(whole)
        ELSE ToString(whole) \o "." \o
             (IF d = 2 /\ part < 10 THEN "0" ELSE "") \o ToString(part)

\* One check and the suggestions it pushes.
Checked(check, suggestions) == [check |-> check, suggestions |-> suggestions]

\* Title check (15 points)
titleCheck(title) ==
    LET len == Len(title)
    IN  IF len = 0
        THEN Checked([status |-> "error", value |-> len, score |-> 0,
                      message |-> "Title is required"],
                     <<"Add a title to your article">>)
        ELSE IF len < 30
        THEN Checked([status |-> "warning", value |-> len, score |-> 7,
                      message |-> "Title too short (" \o ToString(len)
                                      \o " chars). Aim for 50-60."],
                     <<"Lengthen your title to 50-60 characters">>)
        ELSE IF len > 60
        THEN Checked([status |-> "warning", value |-> len, score |-> 10,
                      message |-> "Title too long (" \o ToString(len)
                                      \o " chars). Keep under 60."],
                     <<"Shorten your title to under 60 characters">>)
        ELSE Checked([status |-> "good", value |-> len, score |-> 15,
                      message |-> "Title length perfect (" \o ToString(len)
                                      \o " chars)"],
                     <<>>)

\* Description check (10 points)
descCheck(description) ==
    LET len == Len(description)
    IN  IF len = 0
        THEN Checked([status |-> "error", value |-> len, score |-> 0,
                      message |-> "Meta description is required"],
                     <<"Add a meta description">>)
        ELSE IF len < 120
        THEN Checked([status |-> "warning", value |-> len, score |-> 5,
                      message |-> "Too short (" \o ToString(len)
                                      \o " chars). Aim for 150-160."],
                     <<"Add " \o ToString(160 - len)
                         \o " more characters to meta description">>)
        ELSE IF len > 160
        THEN Checked([status |-> "warning", value |-> len, score |-> 7,
                      message |-> "Too long (" \o ToString(len)
                                      \o " chars). Keep under 160."],
                     <<"Shorten meta description to under 160 characters">>)
        ELSE Checked([status |-> "good", value |-> len, score |-> 10,
                      message |-> "Perfect length (" \o ToString(len) \o " chars)"],
                     <<>>)

\* Content check (20 points)
contentCheck(wordCount) ==
    IF wordCount = 0
    THEN Checked([status |-> "error", value |-> wordCount, wordCount |-> wordCount,
                  score |-> 0, message |-> "Content is empty"],
                 <<"Write your article content">>)
    ELSE IF wordCount < 300
    THEN Checked([status |-> "error", value |-> wordCount, wordCount |-> wordCount,
                  score |-> 5,
                  message |-> "Too short (" \o ToString(wordCount)
                                  \o " words). Minimum 1500 words."],
                 <<"Add " \o ToString(1500 - wordCount)
                     \o " more words to reach minimum">>)
    ELSE IF wordCount < 1000
    THEN Checked([status |-> "warning", value |-> wordCount, wordCount |-> wordCount,
                  score |-> 10,
                  message |-> "Short (" \o ToString(wordCount)
                                  \o " words). Aim for 1500+."],
                 <<"Add " \o ToString(1500 - wordCount)
                     \o " more words for better SEO">>)
    ELSE IF wordCount < 1500
    THEN Checked([status |-> "warning", value |-> wordCount, wordCount |-> wordCount,
                  score |-> 15,
                  message |-> "Good (" \o ToString(wordCount)
                                  \o " words). Aim for 1500+."],
                 <<"Add " \o ToString(1500 - wordCount)
                     \o " more words to reach target">>)
    ELSE Checked([status |-> "good", value |-> wordCount, wordCount |-> wordCount,
                  score |-> 20,
                  message |-> "Excellent (" \o ToString(wordCount) \o " words)"],
                 <<>>)

\* The density points, with 10 for a density in the band.
densityScoreTen(density) ==
    IF 2 * density.num >= density.den /\ 2 * density.num <= 5 * density.den
    THEN 10 ELSE 3

\* The density points of the keyword check: 7 from 0.5 to 2.5 percent, 3 below
\* and above.
densityScore(density) ==
    IF 2 * density.num >= density.den /\ 2 * density.num <= 5 * density.den
    THEN 7 ELSE 3

\* Keyword check (20 points)
keywordCheck(title, content, focusKeyword, keywordDensity, keywordCount, wordCount) ==
    LET inTitle == keywordInText(title, focusKeyword)
        inFirstParagraph == keywordInText(getFirstParagraph(content), focusKeyword)
        inLastParagraph == keywordInText(getLastParagraph(content), focusKeyword)
        kw == Text(focusKeyword)
        low == 2 * keywordDensity.num < keywordDensity.den
        good == ~low /\ 2 * keywordDensity.num <= 5 * keywordDensity.den
        keywordScore == (IF inTitle THEN 5 ELSE 0)
                        + (IF inFirstParagraph THEN 5 ELSE 0)
                        + (IF inLastParagraph THEN 3 ELSE 0)
                        + densityScore(keywordDensity)
    IN  Checked([status |-> IF good THEN "good" ELSE "warning",
                 value |-> toFixed(keywordDensity, 2),
                 keyword |-> focusKeyword,
                 density |-> keywordDensity,
                 inTitle |-> inTitle,
                 inFirstParagraph |-> inFirstParagraph,
                 inLastParagraph |-> inLastParagraph,
                 count |-> keywordCount,
                 score |-> keywordScore,
                 message |->
                    IF good
                    THEN "Keyword density perfect (" \o toFixed(keywordDensity, 1)
                            \o "%)"
                    ELSE IF low
                    THEN "Keyword density low (" \o toFixed(keywordDensity, 1)
                            \o "%). Use \"" \o kw \o "\" more."
                    ELSE "Keyword density high (" \o toFixed(keywordDensity, 1)
                            \o "%). Reduce usage."],
                (IF inTitle THEN <<>>
                 ELSE <<"Add \"" \o kw \o "\" to your title">>)
                \o (IF inFirstParagraph THEN <<>>
                    ELSE <<"Add \"" \o kw \o "\" to first paragraph">>)
                \o (IF inLastParagraph THEN <<>>
                    ELSE <<"Add \"" \o kw \o "\" to last paragraph">>)
                \o (IF good THEN <<>>
                    ELSE IF low
                    THEN <<"Use \"" \o kw \o "\" "
                            \o ToString(MathCeil(Ratio(wordCount - 100 * keywordCount,
                                                       100)))
                            \o " more times">>
                    ELSE <<"Reduce keyword usage to avoid keyword stuffing">>))

\* Headings check (10 points)
headingCheck(headings) ==
    LET value == "H1:" \o ToString(headings.h1) \o " H2:" \o ToString(headings.h2)
                    \o " H3:" \o ToString(headings.h3)
        Check(status, message, score) ==
            [status |-> status, value |-> value, h1Count |-> headings.h1,
             h2Count |-> headings.h2, h3Count |-> headings.h3,
             message |-> message, score |-> score]
    IN  IF headings.h1 = 0
        THEN Checked(Check("error", "No H1 heading found", 0),
                     <<"Add one H1 heading">>)
        ELSE IF headings.h1 > 1
        THEN Checked(Check("warning",
                           "Multiple H1 headings (" \o ToString(headings.h1)
                               \o "). Use only one.", 5),
                     <<"Use only one H1 heading per article">>)
        ELSE IF headings.h2 < 2
        THEN Checked(Check("warning", "Add more H2 headings for structure", 7),
                     <<"Add at least 3-5 H2 headings">>)
        ELSE Checked(Check("good", "Good heading structure", 10), <<>>)

\* Links check (10 points)
linkCheck(links) ==
    LET internalLow == links.internal < 3
        externalLow == links.external < 2
        linkScore ==
            (IF links.internal >= 3 /\ links.internal <= 7 THEN 6
             ELSE IF internalLow THEN 3 ELSE 5)
            + (IF links.external >= 2 /\ links.external <= 5 THEN 4
               ELSE IF externalLow THEN 2 ELSE 3)
        status == IF internalLow \/ externalLow THEN "warning" ELSE "good"
    IN  Checked([status |-> status,
                 value |-> "Internal:" \o ToString(links.internal)
                              \o " External:" \o ToString(links.external),
                 internal |-> links.internal,
                 external |-> links.external,
                 score |-> linkScore,
                 message |-> IF status = "good" THEN "Good link structure"
                             ELSE "Improve link structure"],
                (IF internalLow
                 THEN <<"Add " \o ToString(3 - links.internal)
                          \o " more internal links">>
                 ELSE <<>>)
                \o (IF externalLow
                    THEN <<"Add " \o ToString(2 - links.external)
                             \o " more external links">>
                    ELSE <<>>))

\* Images check (5 points)
imageCheck(images) ==
    LET value == ToString(images.total) \o " images, " \o ToString(images.withAlt)
                    \o " with alt"
        Check(status, message, score) ==
            [status |-> status, value |-> value, total |-> images.total,
             withAlt |-> images.withAlt, message |-> message, score |-> score]
    IN  IF images.total = 0
        THEN Checked(Check("warning",
                           "No images found. Add images to improve engagement.", 2),
                     <<"Add at least 3-5 images to your article">>)
        ELSE IF images.withAlt < images.total
        THEN Checked(Check("warning",
                           ToString(images.total - images.withAlt)
                               \o " images missing alt text", 3),
                     <<"Add alt text to " \o ToString(images.total - images.withAlt)
                         \o " images">>)
        ELSE Checked(Check("good", "All images have alt text", 5), <<>>)

\* [a-z0-9-]
SlugChars == LowerSet \cup Digits \cup {"-"}

\* Slug check (5 points)
slugCheck(slug) ==
    IF Len(slug) = 0
    THEN Checked([status |-> "error", value |-> slug, score |-> 0,
                  message |-> "URL slug is required"],
                 <<"Add a URL slug">>)
    ELSE IF Len(slug) > 60
    THEN Checked([status |-> "warning", value |-> slug, score |-> 3,
                  message |-> "Slug too long. Keep under 60 characters."],
                 <<"Shorten URL slug">>)
    ELSE IF \E i \in 1..Len(slug) : slug[i] \notin SlugChars
    THEN Checked([status |-> "warning", value |-> slug, score |-> 3,
                  message |-> "Use only lowercase letters, numbers, and hyphens"],
                 <<"Fix URL slug format">>)
    ELSE Checked([status |-> "good", value |-> slug, score |-> 5,
                  message |-> "Good URL slug"],
                 <<>>)

\* Readability check (5 points); readability is in thousandths.
readabilityCheck(readability) ==
    LET value == toFixed(Ratio(readability, 1000), 0)
        Check(status, message, score) ==
            [status |-> status, value |-> value, grade |-> readability,
             message |-> message, score |-> score]
    IN  IF readability >= 60000
        THEN Checked(Check("good", "Easy to read", 5), <<>>)
        ELSE IF readability >= 30000
        THEN Checked(Check("warning", "Fairly difficult to read", 3),
                     <<"Simplify sentences for better readability">>)
        ELSE Checked(Check("warning", "Difficult to read", 2),
                     <<"Use shorter sentences and simpler words">>)

\* array.slice(-count)
sliceLast(array, count) ==
    SubSeq(array, Len(array) - Min(count, Len(array)) + 1, Len(array))

\* array.slice(0, count)
slice(array, count) == SubSeq(array, 1, Min(count, Len(array)))

analyzeSEO(title, description, content, slug, tags) ==
    LET focusKeyword == extractFocusKeyword(title, tags)
        wordCount == countWords(content)
        keywordDensity == calculateKeywordDensity(content, focusKeyword)
        keywordCount == MatchCount(toLowerCase(content), toLowerCase(focusKeyword))
        t == titleCheck(title)
        d == descCheck(description)
        c == contentCheck(wordCount)
        k == keywordCheck(title, content, focusKeyword, keywordDensity.value,
                          keywordCount, wordCount)
        h == headingCheck(countHeadings(content))
        l == linkCheck(countLinks(content))
        i == imageCheck(countImages(content))
        s == slugCheck(slug)
        r == readabilityCheck(calculateReadability(content))
        totalScore == t.check.score + d.check.score + c.check.score
                      + k.check.score + h.check.score + l.check.score
                      + i.check.score + s.check.score + r.check.score
        suggestions == t.suggestions \o d.suggestions \o c.suggestions
                       \o k.suggestions \o h.suggestions \o l.suggestions
                       \o i.suggestions \o s.suggestions \o r.suggestions
    IN  IF keywordDensity.threw THEN keywordDensity
        ELSE IF RegExpThrows(toLowerCase(focusKeyword)) THEN Thrown("SyntaxError")
        ELSE Returned([score |-> MathRound(Ratio(totalScore, 1)),
                       title |-> t.check,
                       description |-> d.check,
                       content |-> c.check,
                       keyword |-> k.check,
                       headings |-> h.check,
                       links |-> l.check,
                       images |-> i.check,
                       slug |-> s.check,
                       readability |-> r.check,
                       suggestions |-> slice(suggestions, 5)])

\* s repeated count times.
Repeat(s, count) == [i \in 1..(count * Len(s)) |-> s[((i - 1) % Len(s)) + 1]]

\* ---- the inputs of the model

TitleShort == <<"I", "P", "T", "V">>
TitleGood ==
    <<"B", "e", "s", "t", " ", "I", "P", "T", "V", " ", "P", "l", "a", "y",
      "e", "r", "s", " ", "f", "o", "r", " ", "F", "i", "r", "e", "s", "t",
      "i", "c", "k", " ", "2", "0", "2", "5">>
TitleLong ==
    <<"T", "h", "e", " ", "C", "o", "m", "p", "l", "e", "t", "e", " ", "I",
      "P", "T", "V", " ", "S", "e", "t", "u", "p", " ", "G", "u", "i", "d",
      "e", ":", " ", "P", "l", "a", "y", "e", "r", "s", ",", " ", "B", "o",
      "x", "e", "s", " ", "&", " ", "A", "p", "p", "s", " ", "f", "o", "r",
      " ", "E", "v", "e", "r", "y", " ", "D", "e", "v", "i", "c", "e">>
TitleSymbols == <<"C", "+", "+", " ", "&", " ", "T", "V">>
Titles == <<TitleGood, <<>>, TitleShort, TitleLong, TitleSymbols>>

Descriptions == <<Repeat(<<"d">>, 120), <<>>, Repeat(<<"d">>, 119),
                  Repeat(<<"d">>, 160), Repeat(<<"d">>, 161)>>

SlugGood == <<"i", "p", "t", "v", "-", "p", "l", "a", "y", "e", "r", "s">>
SlugFormat == <<"I", "P", "T", "V", "_", "P", "l", "a", "y", "e", "r", "s">>
Slugs == <<SlugGood, <<>>, SlugFormat, Repeat(<<"a">>, 61)>>

TagPlain == <<"I", "P", "T", "V">>
TagPlus == <<"C", "+", "+">>
TagDot == <<"N", "o", "d", "e", ".", "j", "s">>
TagParen == <<"t", "v", ")">>
TagLists == << <<>>, <<TagPlain>>, <<TagPlus, TagPlain>>, <<TagDot>>, <<TagParen>> >>

\* An article's opening: one h1, two h2, an h3, three internal and two
\* external links, an image with alt text.
ContentHead ==
    <<"<", "h", "1", ">", "I", "P", "T", "V", " ", "p", "l", "a", "y", "e",
      "r", "s", "<", "/", "h", "1", ">", "\n", "\n", "I", "P", "T", "V",
      " ", "p", "l", "a", "y", "e", "r", "s", " ", "s", "t", "r", "e", "a",
      "m", " ", "t", "v", ".", " ", "W", "e", " ", "l", "i", "k", "e", " ",
      "i", "t", "!", "\n", "\n", "<", "h", "2", ">", "A", "p", "p", "s",
      "<", "/", "h", "2", ">", "<", "H", "2", " ", "i", "d", "=", "\"",
      "b", "\"", ">", "B", "o", "x", "e", "s", "<", "/", "H", "2", ">",
      "<", "h", "3", ">", "M", "o", "r", "e", "<", "/", "h", "3", ">",
      "\n", "\n", "<", "a", " ", "h", "r", "e", "f", "=", "\"", "/", "a",
      "\"", ">", "a", "<", "/", "a", ">", " ", "<", "a", " ", "h", "r",
      "e", "f", "=", "'", "/", "b", "'", ">", "b", "<", "/", "a", ">", " ",
      "<", "a", " ", "c", "l", "a", "s", "s", "=", "\"", "x", "\"", " ",
      "h", "r", "e", "f", "=", "\"", "h", "t", "t", "p", "s", ":", "/",
      "/", "i", "p", "t", "v", "-", "b", "l", "o", "g", "g", ".", "s", "i",
      "t", "e", "/", "c", "\"", ">", "c", "<", "/", "a", ">", " ", "<",
      "a", " ", "h", "r", "e", "f", "=", "\"", "h", "t", "t", "p", "s",
      ":", "/", "/", "x", ".", "o", "r", "g", "\"", ">", "x", "<", "/",
      "a", ">", " ", "<", "a", " ", "h", "r", "e", "f", "=", "\"", "h",
      "t", "t", "p", ":", "/", "/", "y", ".", "o", "r", "g", "\"", ">",
      "y", "<", "/", "a", ">", " ", "<", "a", ">", "n", "o", "<", "/", "a",
      ">", " ", "<", "a", " ", "h", "r", "e", "f", "=", "\"", "m", "a",
      "i", "l", "t", "o", ":", "z", "\"", ">", "z", "<", "/", "a", ">",
      " ", "<", "a", "b", "b", "r", ">", "t", "v", "<", "/", "a", "b", "b",
      "r", ">", "\n", "\n", "<", "i", "m", "g", " ", "s", "r", "c", "=",
      "\"", "a", ".", "p", "n", "g", "\"", " ", "a", "l", "t", "=", "\"",
      "A", "\"", ">", "\n", "\n">>
ContentTail ==
    <<"\n", "\n", "N", "o", "d", "e", ".", "j", "s", " ", "a", "n", "d",
      " ", "I", "P", "T", "V", " ", "p", "l", "a", "y", "e", "r", "s", " ",
      "w", "i", "n", ".">>
\* Two h1 headings and three images, one with alt text.
ContentTwoH1 ==
    <<"<", "h", "1", ">", "O", "n", "e", "<", "/", "h", "1", ">", "<", "H",
      "1", " ", "c", "l", "a", "s", "s", "=", "\"", "x", "\"", ">", "T",
      "w", "o", "<", "/", "H", "1", ">", "\n", "\n", "I", "s", " ", "T",
      "V", "2", " ", "g", "o", "o", "d", "?", " ", "Y", "e", "s", ".", " ",
      "N", "o", "!", "\n", "\n", "<", "i", "m", "g", " ", "s", "r", "c",
      "=", "\"", "a", ".", "p", "n", "g", "\"", ">", "<", "I", "M", "G",
      " ", "s", "r", "c", "=", "\"", "b", ".", "p", "n", "g", "\"", " ",
      "a", "l", "t", "=", "\"", "B", "\"", ">", "<", "i", "m", "g", " ",
      "a", "l", "t", "=", "\"", "\"", " ", "s", "r", "c", "=", "\"", "c",
      ".", "p", "n", "g", "\"", ">">>
\* Eight internal and six external links.
ContentManyLinks ==
    <<"<", "h", "1", ">", "I", "P", "T", "V", "<", "/", "h", "1", ">",
      "\n", "\n", "<", "a", " ", "h", "r", "e", "f", "=", "\"", "/", "p",
      "0", "\"", ">", "p", "<", "/", "a", ">", " ", "<", "a", " ", "h",
      "r", "e", "f", "=", "\"", "/", "p", "1", "\"", ">", "p", "<", "/",
      "a", ">", " ", "<", "a", " ", "h", "r", "e", "f", "=", "\"", "/",
      "p", "2", "\"", ">", "p", "<", "/", "a", ">", " ", "<", "a", " ",
      "h", "r", "e", "f", "=", "\"", "/", "p", "3", "\"", ">", "p", "<",
      "/", "a", ">", " ", "<", "a", " ", "h", "r", "e", "f", "=", "\"",
      "/", "p", "4", "\"", ">", "p", "<", "/", "a", ">", " ", "<", "a",
      " ", "h", "r", "e", "f", "=", "\"", "/", "p", "5", "\"", ">", "p",
      "<", "/", "a", ">", " ", "<", "a", " ", "h", "r", "e", "f", "=",
      "\"", "/", "p", "6", "\"", ">", "p", "<", "/", "a", ">", " ", "<",
      "a", " ", "h", "r", "e", "f", "=", "\"", "/", "p", "7", "\"", ">",
      "p", "<", "/", "a", ">", " ", "<", "a", " ", "h", "r", "e", "f", "=",
      "\"", "h", "t", "t", "p", "s", ":", "/", "/", "s", "0", ".", "o",
      "r", "g", "\"", ">", "s", "<", "/", "a", ">", " ", "<", "a", " ",
      "h", "r", "e", "f", "=", "\"", "h", "t", "t", "p", "s", ":", "/",
      "/", "s", "1", ".", "o", "r", "g", "\"", ">", "s", "<", "/", "a",
      ">", " ", "<", "a", " ", "h", "r", "e", "f", "=", "\"", "h", "t",
      "t", "p", "s", ":", "/", "/", "s", "2", ".", "o", "r", "g", "\"",
      ">", "s", "<", "/", "a", ">", " ", "<", "a", " ", "h", "r", "e", "f",
      "=", "\"", "h", "t", "t", "p", "s", ":", "/", "/", "s", "3", ".",
      "o", "r", "g", "\"", ">", "s", "<", "/", "a", ">", " ", "<", "a",
      " ", "h", "r", "e", "f", "=", "\"", "h", "t", "t", "p", "s", ":",
      "/", "/", "s", "4", ".", "o", "r", "g", "\"", ">", "s", "<", "/",
      "a", ">", " ", "<", "a", " ", "h", "r", "e", "f", "=", "\"", "h",
      "t", "t", "p", "s", ":", "/", "/", "s", "5", ".", "o", "r", "g",
      "\"", ">", "s", "<", "/", "a", ">", " ", "B", "e", "a", "u", "t",
      "i", "f", "u", "l", " ", "t", "e", "l", "e", "v", "i", "s", "i", "o",
      "n", " ", "p", "r", "o", "g", "r", "a", "m", "m", "i", "n", "g", " ",
      "i", "n", "f", "o", "r", "m", "a", "t", "i", "o", "n", ".", " ", "c",
      "+", "+", " ", "i", "p", "t", "v">>
ContentPlain ==
    <<"i", "p", "t", "v", " ", "i", "p", "t", "v", " ", "i", "p", "t", "v",
      " ", "p", "l", "a", "y", "e", "r", "s", ".", " ", "1", " ", "<", " ",
      "2", " ", "b", "u", "t", " ", "I", "P", "T", "V", " ", ">", " ", "r",
      "a", "d", "i", "o">>
KeywordSentence == <<"I", "P", "T", "V", " ", "p", "l", "a", "y", "e", "r", "s", ".", " ">>
EasySentence == <<"a", " ", "b", ".", " ">>
TwoWords == <<"a", " ", "b", " ">>

ShortContents ==
    << ContentHead \o ContentTail,
       <<>>,
       ContentPlain,
       ContentTwoH1,
       ContentManyLinks,
       Repeat(<<" ", "\n">>, 3),
       Repeat(TwoWords, 2) >>
\* Contents at and around the word counts 300, 1000 and 1500.
LongContents ==
    << Repeat(<<"a", " ">>, 299),
       Repeat(TwoWords, 150),
       ContentHead \o Repeat(EasySentence, 495) \o ContentTail,
       Repeat(TwoWords, 500),
       Repeat(<<"a", " ">>, 1499),
       ContentHead \o Repeat(KeywordSentence, 10) \o Repeat(EasySentence, 750)
           \o ContentTail >>
Contents == ShortContents \o LongContents

\* The inputs of one call, as positions in Titles, Descriptions, Contents,
\* Slugs and TagLists. Position 1 is the article every other input varies:
\* in up to two fields, a long content in the content only.
SEOInputs ==
    {in \in [title : DOMAIN Titles, description : DOMAIN Descriptions,
             content : DOMAIN Contents, slug : DOMAIN Slugs,
             tags : DOMAIN TagLists] :
        LET changed == Cardinality({f \in DOMAIN in : in[f] # 1})
        IN  IF in.content > Len(ShortContents) THEN changed = 1 ELSE changed <= 2}

SEOInit ==
    /\ seoInput \in SEOInputs
    /\ seoOutcome = <<>>

\* One call of analyzeSEO with the input.
Analyze ==
    /\ UNCHANGED notSEO
    /\ seoOutcome = <<>>
    /\ seoOutcome' = analyzeSEO(Titles[seoInput.title],
                                Descriptions[seoInput.description],
                                Contents[seoInput.content],
                                Slugs[seoInput.slug],
                                TagLists[seoInput.tags])
    /\ UNCHANGED seoInput

SEONext == Analyze

\* C1: analyzeSEO returns an analysis record and never throws, whatever the
\* title, description, content, slug and tags, tags with arbitrary
\* characters included.
AnalyzeNeverThrows ==
    seoOutcome # <<>> => ~seoOutcome.threw

\* The points each check can give.
CheckWeights ==
    [title |-> 15, description |-> 10, content |-> 20, keyword |-> 20,
     headings |-> 10, links |-> 10, images |-> 5, slug |-> 5, readability |-> 5]

\* C2: the overall score analyzeSEO returns is the sum of the nine check
\* scores, each check score lies between 0 and its weight, and the overall
\* score is an integer between 0 and 100.
ScoreIsBoundedSum ==
    (seoOutcome # <<>> /\ ~seoOutcome.threw) =>
        LET analysis == seoOutcome.value
        IN  /\ analysis.score =
                  analysis.title.score + analysis.description.score
                  + analysis.content.score + analysis.keyword.score
                  + analysis.headings.score + analysis.links.score
                  + analysis.images.score + analysis.slug.score
                  + analysis.readability.score
            /\ \A check \in DOMAIN CheckWeights :
                  analysis[check].score \in 0..CheckWeights[check]
            /\ analysis.score \in 0..100

\* An article every check gives its full weight, 100 in all.
ScoreIsBoundedSumWitness ==
    /\ seoOutcome # <<>>
    /\ ~seoOutcome.threw
    /\ seoOutcome.value.score = 100
    /\ \A check \in DOMAIN CheckWeights :
          seoOutcome.value[check].score = CheckWeights[check]
    /\ seoOutcome.value.content.wordCount >= 1500

\* What the nine checks push onto suggestions for the input, check by check
\* in the order analyzeSEO runs them.
ProducedSuggestions ==
    LET title == Titles[seoInput.title]
        content == Contents[seoInput.content]
        focusKeyword == extractFocusKeyword(title, TagLists[seoInput.tags])
        wordCount == countWords(content)
    IN  << titleCheck(title).suggestions,
           descCheck(Descriptions[seoInput.description]).suggestions,
           contentCheck(wordCount).suggestions,
           keywordCheck(title, content, focusKeyword,
                        calculateKeywordDensity(content, focusKeyword).value,
                        MatchCount(toLowerCase(content), toLowerCase(focusKeyword)),
                        wordCount).suggestions,
           headingCheck(countHeadings(content)).suggestions,
           linkCheck(countLinks(content)).suggestions,
           imageCheck(countImages(content)).suggestions,
           slugCheck(Slugs[seoInput.slug]).suggestions,
           readabilityCheck(calculateReadability(content)).suggestions >>

\* The number of suggestions the checks before check number n produce.
ProducedBefore(produced, n) ==
    LET count[k \in 0..(n - 1)] ==
            IF k = 0 THEN 0 ELSE count[k - 1] + Len(produced[k])
    IN  count[n - 1]

\* C15: analyzeSEO returns at most 5 suggestions, and they are the first five
\* the checks produce in check order (title, description, content, keyword,
\* headings, links, images, slug, readability): the suggestion number i of a
\* check is returned, at place i after those of the earlier checks, exactly
\* when fewer than five suggestions precede it.
FirstFiveSuggestions ==
    (seoOutcome # <<>> /\ ~seoOutcome.threw) =>
        LET returned == seoOutcome.value.suggestions
            produced == ProducedSuggestions
        IN  /\ Len(returned) <= 5
            /\ \A n \in DOMAIN produced :
               \A i \in DOMAIN produced[n] :
                  LET place == ProducedBefore(produced, n) + i
                  IN  IF place <= 5
                      THEN /\ place <= Len(returned)
                           /\ returned[place] = produced[n][i]
                      ELSE Len(returned) = 5
            /\ Len(returned) <= ProducedBefore(produced, Len(produced) + 1)

\* Six or more suggestions were produced: the five returned run from the meta
\* description to the keyword density, and the suggestion of the headings
\* check, which found no H1, is cut.
FirstFiveSuggestionsWitness ==
    /\ seoOutcome # <<>>
    /\ ~seoOutcome.threw
    /\ Len(seoOutcome.value.suggestions) = 5
    /\ seoOutcome.value.suggestions[1] = "Add a meta description"
    /\ seoOutcome.value.suggestions[5] = "Use \"iptv players\" 0 more times"
    /\ seoOutcome.value.headings.h1Count = 0
    /\ \A i \in 1..5 : seoOutcome.value.suggestions[i] # "Add one H1 heading"

(***************************************************************************)
(* Home page and sitemap                                                   *)
(*   getFeaturedArticles   src/src/components/article-view-tracker.tsx     *)
(*   sitemap               src/unnamed/part_001                            *)
(* Both read the tables through safeDbOperation. Dates are days of         *)
(* December 2024; 0 stands for null.                                       *)
(***************************************************************************)

\* take: 6
FeaturedTake == 6

\* The rows the article table is cut from, in storage order.
ArticleRows ==
    [i \in 1..10 |->
        [slug |-> "post-" \o ToString(i),
         title |-> "Post " \o ToString(i),
         excerpt |-> IF i % 3 = 0 THEN "" ELSE "About " \o ToString(i),
         status |-> IF i \in {3, 8} THEN "DRAFT" ELSE "PUBLISHED",
         publishedAt |-> IF i \in {3, 8} THEN 0 ELSE ((i * 7) % 11) + 1,
         updatedAt |-> ((i * 3) % 11) + 1,
         readTime |-> IF i % 2 = 0 THEN 0 ELSE i]]
CategoryRows ==
    << [slug |-> "players", isActive |-> TRUE, updatedAt |-> 4],
       [slug |-> "boxes", isActive |-> FALSE, updatedAt |-> 9],
       [slug |-> "guides", isActive |-> TRUE, updatedAt |-> 2] >>
PageTableRows ==
    << [slug |-> "about", isActive |-> TRUE, updatedAt |-> 1],
       [slug |-> "old-terms", isActive |-> FALSE, updatedAt |-> 3] >>

\* The first n elements of a sequence.
Prefixes(rows) == {SubSeq(rows, 1, n) : n \in 0..Len(rows)}

\* new Date(publishedAt).toLocaleDateString('en-US', {year: 'numeric',
\* month: 'short', day: 'numeric'})
toLocaleDateString(day) == "Dec " \o ToString(day) \o ", 2024"

\* prisma.article.findMany({where: {status: 'PUBLISHED'},
\*                          orderBy: {publishedAt: 'desc'}, take: 6})
FeaturedQuery(rows) ==
    LET published == SelectSeq(rows, LAMBDA r : r.status = "PUBLISHED")
        ordered == SortSeq(published, LAMBDA a, b : a.publishedAt > b.publishedAt)
    IN  SubSeq(ordered, 1, Min(FeaturedTake, Len(ordered)))

\* The article of the catch block.
placeholderArticle ==
    [title |-> "Database Connection Issue",
     excerpt |-> "Unable to connect to database. Please check your database configuration and try again.",
     slug |-> "database-connection-issue",
     publishedAt |-> "Dec 15, 2024",
     readTime |-> "1 min read"]

\* getFeaturedArticles(), on the rows of the article table and on whether
\* the query succeeds. Of a card the model keeps title, excerpt, slug,
\* publishedAt and readTime.
getFeaturedArticles(rows, succeeds) ==
    LET articles == safeDbOperation(succeeds, FeaturedQuery(rows), <<>>)
        card(article) ==
            [title |-> article.title,
             excerpt |-> article.excerpt,
             slug |-> article.slug,
             publishedAt |-> IF article.publishedAt # 0
                             THEN toLocaleDateString(article.publishedAt)
                             ELSE "",
             readTime |-> ToString(IF article.readTime # 0 THEN article.readTime
                                   ELSE 5) \o " min read"]
        body == IF articles.threw THEN [threw |-> TRUE, response |-> <<>>]
                ELSE IF Len(articles.value) > 0
                THEN [threw |-> FALSE,
                      response |-> [i \in DOMAIN articles.value |->
                                       card(articles.value[i])]]
                ELSE [threw |-> FALSE, response |-> <<>>]
    IN  TryCatch(body, <<placeholderArticle>>).response

\* ---- sitemap

baseUrl == "https://iptv-blogg.site"
\* new Date() of the static entries.
Today == 31
\* The three queries of sitemap().
Queries == {"article", "category", "page"}

staticPages ==
    << [url |-> baseUrl, lastModified |-> Today, changeFrequency |-> "daily",
        priority |-> 10],
       [url |-> baseUrl \o "/articles", lastModified |-> Today,
        changeFrequency |-> "daily", priority |-> 9] >>

\* One group of entries: rows.map(row => ({url: `${baseUrl}/${path}/${row.slug}`,
\* lastModified: row.updatedAt, changeFrequency, priority})); priorities in
\* tenths.
SitemapEntries(rows, path, changeFrequency, priority) ==
    [i \in DOMAIN rows |->
        [url |-> baseUrl \o "/" \o path \o "/" \o rows[i].slug,
         lastModified |-> rows[i].updatedAt,
         changeFrequency |-> changeFrequency,
         priority |-> priority]]

\* prisma.article.findMany({where: {status: 'PUBLISHED'},
\*                          orderBy: {updatedAt: 'desc'}})
SitemapArticleQuery(rows) ==
    SortSeq(SelectSeq(rows, LAMBDA r : r.status = "PUBLISHED"),
            LAMBDA a, b : a.updatedAt > b.updatedAt)
\* A query without its where clause.
ActiveQueryUnfiltered(rows) == rows

\* prisma.category.findMany / prisma.page.findMany({where: {isActive: true}})
ActiveQuery(rows) == SelectSeq(rows, LAMBDA r : r.isActive)

\* sitemap(), on the tables and on the queries that fail. Nothing in it
\* catches what safeDbOperation throws.
sitemap(tables, failed) ==
    LET articles == safeDbOperation("article" \notin failed,
                                    SitemapArticleQuery(tables.articles), <<>>)
        categories == safeDbOperation("category" \notin failed,
                                      ActiveQuery(tables.categories), <<>>)
        pages == safeDbOperation("page" \notin failed,
                                 ActiveQuery(tables.pages), <<>>)
    IN  IF articles.threw \/ categories.threw \/ pages.threw
        THEN Thrown("database")
        ELSE Returned(staticPages
                \o SitemapEntries(articles.value, "article", "weekly", 8)
                \o SitemapEntries(categories.value, "category", "weekly", 7)
                \o SitemapEntries(pages.value, "pages", "monthly", 5))

SiteInit ==
    /\ cms \in [articles : Prefixes(ArticleRows),
                categories : Prefixes(CategoryRows),
                pages : Prefixes(PageTableRows)]
    /\ safeDbRethrows \in BOOLEAN
    /\ siteOutcome = <<>>

\* The home page is rendered: Home() awaits getFeaturedArticles().
RenderHome ==
    /\ UNCHANGED notSite
    /\ \E succeeds \in BOOLEAN :
          siteOutcome' = [fn |-> "getFeaturedArticles",
                          failed |-> IF succeeds THEN {} ELSE {"article"},
                          threw |-> FALSE,
                          value |-> getFeaturedArticles(cms.articles, succeeds)]
    /\ UNCHANGED cms

\* /sitemap.xml is requested.
GenerateSitemap ==
    /\ UNCHANGED notSite
    /\ \E failed \in SUBSET Queries :
          LET made == sitemap(cms, failed)
          IN  siteOutcome' = [fn |-> "sitemap", failed |-> failed,
                              threw |-> made.threw, value |-> made.value]
    /\ UNCHANGED cms

SiteNext ==
    \/ RenderHome
    \/ GenerateSitemap

\* The rows of the table with a slug.
RowsWithSlug(rows, slug) == {i \in DOMAIN rows : rows[i].slug = slug}

\* C13: getFeaturedArticles returns at most 6 articles, each a PUBLISHED
\* article of the table, ordered by publishedAt descending; it never returns
\* a hardcoded demo or placeholder article, and when the database query fails
\* it returns no articles.
FeaturedFromDatabaseOnly ==
    (siteOutcome # <<>> /\ siteOutcome.fn = "getFeaturedArticles") =>
        LET got == siteOutcome.value
            row(i) == cms.articles[CHOOSE k \in RowsWithSlug(cms.articles, got[i].slug) : TRUE]
        IN  /\ Len(got) <= 6
            /\ \A i \in DOMAIN got :
                  /\ RowsWithSlug(cms.articles, got[i].slug) # {}
                  /\ row(i).status = "PUBLISHED"
                  /\ got[i].title = row(i).title
            /\ \A i, j \in DOMAIN got :
                  i < j => row(i).publishedAt >= row(j).publishedAt
            /\ siteOutcome.failed # {} => got = <<>>

\* The URLs the sitemap has to hold for a group: one per row that
\* qualifies, none when the group's query failed.
GroupUrls(rows, path, query, failed) ==
    IF query \in failed THEN {}
    ELSE {baseUrl \o "/" \o path \o "/" \o rows[i].slug :
            i \in {k \in DOMAIN rows :
                     IF query = "article" THEN rows[k].status = "PUBLISHED"
                     ELSE rows[k].isActive}}

\* The entries are the two static ones, then one per published article, one
\* per active category and one per active page, group after group.
SitemapShape(entries, failed) ==
    LET urls == [i \in DOMAIN entries |-> entries[i].url]
        articleUrls == GroupUrls(cms.articles, "article", "article", failed)
        categoryUrls == GroupUrls(cms.categories, "category", "category", failed)
        pageUrls == GroupUrls(cms.pages, "pages", "page", failed)
        rank(u) == IF u \in articleUrls THEN 1
                   ELSE IF u \in categoryUrls THEN 2 ELSE 3
    IN  /\ Len(urls) >= 2
        /\ urls[1] = baseUrl
        /\ urls[2] = baseUrl \o "/articles"
        /\ \A u \in articleUrls \cup categoryUrls \cup pageUrls :
              Cardinality({i \in DOMAIN urls : urls[i] = u}) = 1
        /\ \A i \in 3..Len(urls) :
              urls[i] \in articleUrls \cup categoryUrls \cup pageUrls
        /\ \A i, j \in 3..Len(urls) : i < j => rank(urls[i]) <= rank(urls[j])

\* C14 (as stated): the sitemap always holds the two static entries first,
\* then exactly one /article/<slug> entry per PUBLISHED article, one
\* /category/<slug> entry per active category and one /pages/<slug> entry per
\* active page, in that order, and nothing else; when a database query fails
\* that group is empty while the static entries remain.
SitemapFromDatabase ==
    (siteOutcome # <<>> /\ siteOutcome.fn = "sitemap") =>
        /\ ~siteOutcome.threw
        /\ SitemapShape(siteOutcome.value, siteOutcome.failed)

\* C14 (amended): sitemap() catches nothing itself. When every query
\* succeeds, or safeDbOperation answers a failed query with its [] fallback,
\* the sitemap holds the two static entries first, then exactly one entry per
\* PUBLISHED article, active category and active page, in that order, the
\* group of a failed query being empty; when safeDbOperation lets the error
\* of a failed query through, sitemap() throws and there is no sitemap.
SitemapFromDatabaseUnlessThrown ==
    (siteOutcome # <<>> /\ siteOutcome.fn = "sitemap") =>
        IF safeDbRethrows /\ siteOutcome.failed # {}
        THEN siteOutcome.threw
        ELSE /\ ~siteOutcome.threw
             /\ SitemapShape(siteOutcome.value, siteOutcome.failed)

\* The category query failed and was answered with []: the sitemap of the
\* full tables has the two static entries, the eight published articles and
\* the active page.
SitemapWitness ==
    /\ siteOutcome # <<>>
    /\ siteOutcome.fn = "sitemap"
    /\ siteOutcome.failed = {"category"}
    /\ ~siteOutcome.threw
    /\ cms.articles = ArticleRows
    /\ cms.categories = CategoryRows
    /\ cms.pages = PageTableRows
    /\ Len(siteOutcome.value) = 2 + 8 + 1
    /\ siteOutcome.value[11].url = baseUrl \o "/pages/about"

(***************************************************************************)
(* Query validation (src/unnamed/part_004)                                 *)
(* validateQuery(searchParams, searchSchema). URLSearchParams is a         *)
(* sequence of key/value entries, the values sequences of characters.      *)
(***************************************************************************)

\* Numbers, as Number() makes them from the decimal literals of the model's
\* inputs: exact quotients num / den, and the two infinities. Exponents and
\* the 0x, 0o, 0b prefixes are not among the inputs.
NaN == [kind |-> "NaN", num |-> 0, den |-> 1]
Finite(num, den) == [kind |-> "finite", num |-> num, den |-> den]
Infinity(sign) == [kind |-> "Infinity", num |-> sign, den |-> 1]

\* The number a sequence of decimal digits writes.
DigitsValue(digits) ==
    LET value[k \in 0..Len(digits)] ==
            IF k = 0 THEN 0
            ELSE 10 * value[k - 1]
                 + (CHOOSE n \in 0..9 : ToString(n) = digits[k])
    IN  value[Len(digits)]

\* Number(value) of a string: white space trimmed, '' is 0, then an optional
\* sign and Infinity or digits with at most one point; anything else is NaN.
StringToNumber(s) ==
    LET t == trim(s)
        signed == Len(t) >= 1 /\ t[1] \in {"+", "-"}
        sign == IF signed /\ t[1] = "-" THEN -1 ELSE 1
        body == IF signed THEN Tail(t) ELSE t
        points == {i \in DOMAIN body : body[i] = "."}
        point == IF points = {} THEN Len(body) + 1 ELSE CHOOSE i \in points : TRUE
        whole == SubSeq(body, 1, point - 1)
        fraction == SubSeq(body, point + 1, Len(body))
        scale[k \in 0..Len(fraction)] == IF k = 0 THEN 1 ELSE 10 * scale[k - 1]
    IN  IF t = <<>> THEN Finite(0, 1)
        ELSE IF body = <<"I", "n", "f", "i", "n", "i", "t", "y">> THEN Infinity(sign)
        ELSE IF /\ \A i \in DOMAIN body : body[i] \in Digits \cup {"."}
                /\ Cardinality(points) <= 1
                /\ Len(whole) + Len(fraction) >= 1
        THEN Finite(sign * DigitsValue(whole \o fraction), scale[Len(fraction)])
        ELSE NaN

isNaN(number) == number.kind = "NaN"
\* Number.isInteger
isInteger(number) == number.kind = "finite" /\ number.num % number.den = 0
\* number >= bound and number <= bound, for an integer bound
AtLeast(number, bound) ==
    IF number.kind = "finite" THEN number.num >= bound * number.den
    ELSE number.kind = "Infinity" /\ number.num > 0
AtMost(number, bound) ==
    IF number.kind = "finite" THEN number.num <= bound * number.den
    ELSE number.kind = "Infinity" /\ number.num < 0

\* Object.fromEntries(searchParams.entries()): the last entry of a key wins.
fromEntries(entries) ==
    [key \in {entries[i].key : i \in DOMAIN entries} |->
        entries[CHOOSE i \in DOMAIN entries :
                  /\ entries[i].key = key
                  /\ \A j \in DOMAIN entries : entries[j].key = key => j <= i].value]

\* "Convert string numbers to actual numbers": every parameter whose value
\* Number() does not make NaN becomes that number.
ConvertNumbers(params) ==
    [key \in DOMAIN params |->
        IF ~isNaN(StringToNumber(params[key]))
        THEN [type |-> "number", number |-> StringToNumber(params[key]), text |-> <<>>]
        ELSE [type |-> "string", number |-> NaN, text |-> params[key]]]

\* The issues z.string().min(min, minMessage).max(max, maxMessage) raises;
\* max 0 stands for no .max().
StringIssues(params, key, optional, min, minMessage, max, maxMessage) ==
    IF key \notin DOMAIN params THEN IF optional THEN <<>> ELSE <<"Required">>
    ELSE IF params[key].type # "string" THEN <<"Expected string, received number">>
    ELSE (IF Len(params[key].text) < min THEN <<minMessage>> ELSE <<>>)
         \o (IF max # 0 /\ Len(params[key].text) > max THEN <<maxMessage>>
             ELSE <<>>)

\* The issues z.number().int().min(1).max(max).default(...) raises; max 0
\* stands for no .max().
NumberIssues(params, key, max) ==
    IF key \notin DOMAIN params THEN <<>>
    ELSE IF params[key].type # "number" THEN <<"Expected number, received string">>
    ELSE (IF isInteger(params[key].number) THEN <<>>
          ELSE <<"Expected integer, received float">>)
         \o (IF AtLeast(params[key].number, 1) THEN <<>>
             ELSE <<"Number must be greater than or equal to 1">>)
         \o (IF max = 0 \/ AtMost(params[key].number, max) THEN <<>>
             ELSE <<"Number must be less than or equal to " \o ToString(max)>>)

\* The strings of a sequence joined by a separator.
join(strings, separator) ==
    LET joined[k \in 0..Len(strings)] ==
            IF k = 0 THEN ""
            ELSE IF k = 1 THEN strings[1]
            ELSE joined[k - 1] \o separator \o strings[k]
    IN  joined[Len(strings)]

\* searchSchema.safeParse(params), with result.error.flatten().fieldErrors
\* as the sequence of the fields that have issues, in the order of the
\* schema's keys.
searchSchema(params) ==
    LET issues ==
            << [field |-> "query",
                messages |-> StringIssues(params, "query", FALSE,
                                2, "Search query must be at least 2 characters",
                                100, "Search query must be less than 100 characters")],
               [field |-> "category",
                messages |-> StringIssues(params, "category", TRUE,
                                0, "", 0, "")],
               [field |-> "page", messages |-> NumberIssues(params, "page", 0)],
               [field |-> "limit", messages |-> NumberIssues(params, "limit", 50)] >>
        fieldErrors == SelectSeq(issues, LAMBDA e : e.messages # <<>>)
        data == [key \in (DOMAIN params \cap {"query", "category"}) \cup {"page", "limit"} |->
                    IF key \in {"query", "category"} THEN Text(params[key].text)
                    ELSE IF key \in DOMAIN params THEN params[key].number
                    ELSE IF key = "page" THEN Finite(1, 1) ELSE Finite(10, 1)]
    IN  IF fieldErrors = <<>>
        THEN [success |-> TRUE, data |-> data, fieldErrors |-> <<>>]
        ELSE [success |-> FALSE, data |-> <<>>, fieldErrors |-> fieldErrors]

\* validateQuery(searchParams, searchSchema). Nothing in the try block throws
\* on a URLSearchParams, so the catch block stays unused.
validateQuery(entries) ==
    LET params == ConvertNumbers(fromEntries(entries))
        result == searchSchema(params)
        errorMessage ==
            join([i \in DOMAIN result.fieldErrors |->
                     result.fieldErrors[i].field \o ": "
                         \o join(result.fieldErrors[i].messages, ", ")],
                 "; ")
    IN  IF ~result.success
        THEN Returned([success |-> FALSE,
                       error |-> IF errorMessage # "" THEN errorMessage
                                 ELSE "Validation failed",
                       data |-> <<>>])
        ELSE Returned([success |-> TRUE, error |-> "", data |-> result.data])

\* ---- the inputs of the model

\* A parameter that is not in the query string.
Absent == <<"absent">>
QueryTexts ==
    {Absent, <<>>, <<"a">>, <<"t", "v">>, <<"i", "p", "t", "v", " ", "b", "o", "x">>, Repeat(<<"a">>, 100),
     Repeat(<<"a">>, 101), <<"2", "0", "2", "4">>, <<" ", " ">>, <<"4", "k", " ", "t", "v">>}
CategoryTexts == {Absent, <<"n", "e", "w", "s">>, <<"1", "2", "3">>}
PageTexts ==
    {Absent, <<"1">>, <<"0">>, <<"a", "b", "c">>, <<"2", ".", "5">>, <<>>,
     <<" ", "7", " ">>, <<"-", "1">>, <<"I", "n", "f", "i", "n", "i", "t", "y">>}
LimitTexts == {Absent, <<"1", "0">>, <<"5", "0">>, <<"5", "1">>, <<"5", "0", ".", "0">>}

Entry(key, value) ==
    IF value = Absent THEN <<>> ELSE <<[key |-> key, value |-> value]>>
SearchParamsPool ==
    {Entry("query", q) \o Entry("category", c) \o Entry("page", p)
        \o Entry("limit", l) :
        q \in QueryTexts, c \in CategoryTexts, p \in PageTexts, l \in LimitTexts}
    \cup {Entry("query", <<"a">>) \o Entry("sort", <<"n", "e", "w">>)
             \o Entry("query", <<"i", "p", "t", "v", " ", "b", "o", "x">>)}

QueryInit ==
    /\ searchParams \in SearchParamsPool
    /\ queryOutcome = <<>>

\* One call of validateQuery with the query string.
Validate ==
    /\ UNCHANGED notQuery
    /\ queryOutcome' = validateQuery(searchParams)
    /\ UNCHANGED searchParams

QueryNext == Validate

\* The integer a parameter stands for lies in low..high (high 0: no upper
\* limit), or the parameter is absent.
AbsentOrWithin(params, key, low, high) ==
    key \in DOMAIN params =>
        /\ isInteger(StringToNumber(params[key]))
        /\ AtLeast(StringToNumber(params[key]), low)
        /\ high = 0 \/ AtMost(StringToNumber(params[key]), high)

\* C16: validateQuery with searchSchema succeeds for every query string
\* whose query parameter is a string of 2 to 100 characters, with page and
\* limit absent or within 1.. and 1..50, and fails with an error message
\* otherwise; it never throws.
SearchQueryValidated ==
    queryOutcome # <<>> =>
        /\ ~queryOutcome.threw
        /\ LET params == fromEntries(searchParams)
               valid == /\ "query" \in DOMAIN params
                        /\ Len(params["query"]) \in 2..100
                        /\ AbsentOrWithin(params, "page", 1, 0)
                        /\ AbsentOrWithin(params, "limit", 1, 50)
           IN  IF valid THEN queryOutcome.value.success
               ELSE /\ ~queryOutcome.value.success
                    /\ queryOutcome.value.error # ""

(***************************************************************************)
(* SEOImageUpload                                                          *)
(*                                                                         *)
(* A React function component.  uploadForm holds the context prop and the  *)
(* useState values of the current render; an event handler reads the       *)
(* values of the render it was created in, and a value given to a setter   *)
(* is seen from the next render on.  uploadsSent is the form data of each  *)
(* fetch('/api/upload'), with the file and the two fields as they stood    *)
(* when the file was selected.                                             *)
(***************************************************************************)

\* Most files selected in a run.
MaxSelections == 2

\* The context prop: absent, or a name.
Contexts == {<<>>, <<"S", "e", "t", "u", "p">>}
\* What the user types into the Alt Text and Image Description fields.
TypedTexts == {<<>>, <<"L", "o", "g", "o">>}
\* What a file input or a drop hands over: no file, or one of two files.
SelectableFiles ==
    {NoFile, LargestFile,
     [name |-> <<"_", "x", "-", "-", "y", " ", "(", "2", ")", ".", "p", "n",
                "g">>,
      type |-> "image/png", size |-> 1000]}

\* filename.replace(/[^a-zA-Z0-9\s]/g, ' ')
replaceSpecials(filename) ==
    [i \in DOMAIN filename |->
        IF filename[i] \in LowerSet \cup UpperSet \cup Digits \cup WhiteSpace
        THEN filename[i] ELSE " "]
\* .replace(/\s+/g, ' ')
collapseWhitespace(s) ==
    LET heads == {i \in DOMAIN s :
                      s[i] \notin WhiteSpace \/ i = 1 \/ s[i - 1] \notin WhiteSpace}
    IN  [k \in 1..Cardinality(heads) |->
            LET i == CHOOSE h \in heads : Cardinality({j \in heads : j <= h}) = k
            IN  IF s[i] \in WhiteSpace THEN " " ELSE s[i]]

generateSmartAltText(context, filename) ==
    LET contextPart == IF context # <<>> THEN context \o <<" ", "-", " ">> ELSE <<>>
        cleanFilename == trim(collapseWhitespace(replaceSpecials(filename)))
    IN  contextPart \o cleanFilename \o
            <<" ", "-", " ", "I", "P", "T", "V", " ", "G", "u", "i", "d",
              "e", " ", "I", "m", "a", "g", "e">>

generateSmartDescription(context, filename) ==
    LET contextPart ==
            IF context # <<>>
            THEN <<"R", "e", "l", "a", "t", "e", "d", " ", "t", "o", " ">> \o context \o <<".", " ">>
            ELSE <<>>
    IN  contextPart \o
            <<"H", "i", "g", "h", "-", "q", "u", "a", "l", "i", "t", "y",
              " ", "i", "m", "a", "g", "e", " ", "f", "o", "r", " ", "I",
              "P", "T", "V", " ", "b", "l", "o", "g", " ", "c", "o", "n",
              "t", "e", "n", "t", ".", " ", "O", "p", "t", "i", "m", "i",
              "z", "e", "d", " ", "f", "o", "r", " ", "f", "a", "s", "t",
              " ", "l", "o", "a", "d", "i", "n", "g", " ", "a", "n", "d",
              " ", "S", "E", "O", ".">>

\* The form data uploadImage builds, from the props and state of the render
\* whose handler is running.
uploadImage(form, file) ==
    [file |-> file, context |-> form.context,
     altText |-> form.altText, description |-> form.description]

\* handleFileSelect(file): the setters take effect in the next render, the
\* call of uploadImage in this one.
handleFileSelect(file) ==
    /\ file # NoFile
    /\ Len(uploadsSent) < MaxSelections
    /\ uploadsSent' = Append(uploadsSent,
            [sent |-> uploadImage(uploadForm, file),
             altTextField |-> uploadForm.altText,
             descriptionField |-> uploadForm.description])
    /\ uploadForm' =
        [uploadForm EXCEPT
            !.altText = IF uploadForm.altText = <<>>
                        THEN generateSmartAltText(uploadForm.context, file.name)
                        ELSE @,
            !.description = IF uploadForm.description = <<>>
                            THEN generateSmartDescription(uploadForm.context,
                                                          file.name)
                            ELSE @,
            !.isUploading = TRUE,
            !.pending = @ + 1]
    /\ UNCHANGED notForm

FormInit ==
    /\ uploadForm \in [context : Contexts, isUploading : {FALSE},
                       uploadedImage : {FALSE}, altText : {<<>>},
                       description : {<<>>}, pending : {0}]
    /\ uploadsSent = <<>>

\* onChange of the Alt Text input
ChangeAltText(value) ==
    /\ uploadForm.altText # value
    /\ uploadForm' = [uploadForm EXCEPT !.altText = value]
    /\ UNCHANGED <<uploadsSent, notForm>>

\* onChange of the Image Description input
ChangeDescription(value) ==
    /\ uploadForm.description # value
    /\ uploadForm' = [uploadForm EXCEPT !.description = value]
    /\ UNCHANGED <<uploadsSent, notForm>>

\* The hidden file input, opened by the Choose Image button, which is
\* rendered when nothing is uploading and no image is shown.
ChooseImage(file) ==
    /\ ~uploadForm.isUploading
    /\ ~uploadForm.uploadedImage
    /\ file # NoFile
    /\ handleFileSelect(file)

\* handleDrop: the drop area is always rendered.
handleDrop(file) ==
    /\ file # NoFile
    /\ handleFileSelect(file)

\* The rest of uploadImage, once fetch has answered: result.success or the
\* catch block, then finally.
UploadAnswered(success) ==
    /\ uploadForm.pending > 0
    /\ uploadForm' = [uploadForm EXCEPT
                        !.uploadedImage = @ \/ success,
                        !.isUploading = FALSE,
                        !.pending = @ - 1]
    /\ UNCHANGED <<uploadsSent, notForm>>

\* The Remove button, rendered with the uploaded image.
Remove ==
    /\ ~uploadForm.isUploading
    /\ uploadForm.uploadedImage
    /\ uploadForm' = [uploadForm EXCEPT !.uploadedImage = FALSE,
                                        !.altText = <<>>,
                                        !.description = <<>>]
    /\ UNCHANGED <<uploadsSent, notForm>>

FormNext ==
    \/ \E value \in TypedTexts : ChangeAltText(value)
    \/ \E value \in TypedTexts : ChangeDescription(value)
    \/ \E file \in SelectableFiles : ChooseImage(file)
    \/ \E file \in SelectableFiles : handleDrop(file)
    \/ \E success \in BOOLEAN : UploadAnswered(success)
    \/ Remove

\* C21: every upload request carries, in 'altText' and in 'description', the
\* text generated for its file when the field was empty at the moment the
\* file was selected, and the user's text unchanged when the field was not
\* empty.
GeneratedTextIsSent ==
    \A k \in DOMAIN uploadsSent :
        LET u == uploadsSent[k]
        IN  /\ u.sent.altText =
                    IF u.altTextField = <<>>
                    THEN generateSmartAltText(u.sent.context, u.sent.file.name)
                    ELSE u.altTextField
            /\ u.sent.description =
                    IF u.descriptionField = <<>>
                    THEN generateSmartDescription(u.sent.context, u.sent.file.name)
                    ELSE u.descriptionField

(***************************************************************************)
(* Specifications: one per piece, the other pieces idle.                   *)
(***************************************************************************)

TrackerIdle == TrackerInit
ArticlesIdle ==
    /\ initialArticles = <<>>
    /\ searchQuery = <<>>
    /\ selectedCategory = "all"
    /\ sortBy = "newest"
    /\ viewMode = "grid"
    /\ displayCount = InitialDisplayCount
    /\ filteredArticles = <<>>
    /\ loadMoreClicks = 0

EnvIdle ==
    /\ processEnv = <<>>
    /\ envStatus = "unloaded"
    /\ env = <<>>
    /\ envError = ""

\* The API piece at rest, the database helper aside.
ApiQuiet ==
    /\ uploadedFiles = <<>>
    /\ articleTable = <<>>
    /\ dbUp = TRUE
    /\ imagekit = FALSE
    /\ dateNow = 0
    /\ lastRequest = <<>>
    /\ lastResponse = <<>>
    /\ library = {}

ApiIdle == ApiQuiet /\ safeDbRethrows = FALSE

SEOIdle ==
    /\ seoInput = <<>>
    /\ seoOutcome = <<>>

SiteIdle ==
    /\ cms = <<>>
    /\ siteOutcome = <<>>

QueryIdle ==
    /\ searchParams = <<>>
    /\ queryOutcome = <<>>

FormIdle ==
    /\ uploadForm = <<>>
    /\ uploadsSent = <<>>

OthersIdle == SiteIdle /\ QueryIdle /\ FormIdle

InitTracker ==
    TrackerInit /\ ArticlesIdle /\ EnvIdle /\ ApiIdle /\ SEOIdle /\ OthersIdle
InitArticles ==
    ArticlesInit /\ TrackerIdle /\ EnvIdle /\ ApiIdle /\ SEOIdle /\ OthersIdle
InitEnv == EnvInit /\ TrackerIdle /\ ArticlesIdle /\ ApiIdle /\ SEOIdle /\ OthersIdle
InitApi == ApiInit /\ TrackerIdle /\ ArticlesIdle /\ EnvIdle /\ SEOIdle /\ OthersIdle
InitSEO == SEOInit /\ TrackerIdle /\ ArticlesIdle /\ EnvIdle /\ ApiIdle /\ OthersIdle
InitQuery ==
    QueryInit /\ TrackerIdle /\ ArticlesIdle /\ EnvIdle /\ ApiIdle /\ SEOIdle /\ SiteIdle
        /\ FormIdle
InitSite ==
    SiteInit /\ TrackerIdle /\ ArticlesIdle /\ EnvIdle /\ ApiQuiet /\ SEOIdle /\ QueryIdle
        /\ FormIdle
InitForm ==
    FormInit /\ TrackerIdle /\ ArticlesIdle /\ EnvIdle /\ ApiIdle /\ SEOIdle /\ SiteIdle
        /\ QueryIdle

SpecTracker == InitTracker /\ [][TrackerNext]_vars
SpecArticles == InitArticles /\ [][ArticlesNext]_vars
SpecEnv == InitEnv /\ [][EnvNext]_vars
SpecApi == InitApi /\ [][ApiNext]_vars
SpecSEO == InitSEO /\ [][SEONext]_vars
SpecSite == InitSite /\ [][SiteNext]_vars
SpecQuery == InitQuery /\ [][QueryNext]_vars
SpecForm == InitForm /\ [][FormNext]_vars

====
